---- MODULE Spec2Model ----
(***************************************************************************)
(* Retail operations copilot: the retrieval engine (src/retrieval) and the *)
(* agent tool surface and pipeline (src/copilot_agents).                   *)
(*                                                                         *)
(* Scores are integers in hundredths: a cosine distance of 0.30 is 30 and  *)
(* the similarity 1 - 0.30 is One - 30 = 70.  Strings are sequences of     *)
(* tokens, built by concatenation as the f-strings of the source build     *)
(* them.                                                                   *)
(***************************************************************************)
EXTENDS Integers, Sequences, FiniteSets, TLC

\* ------------------------------------------------------------------ bounds
\* longest query list handed to multi_query_retrieval by a direct caller
MaxQueries == 2
\* longest comma-separated argument of multi_search_retail_documents
MaxLen == 3
\* most tool calls the researcher's completion makes in one run (max_turns=25 caps them)
MaxToolCalls == 2
\* most pages of one PDF file
MaxPages == 2
\* most runs of equal characters in a text handed to chunk_text
MaxRuns == 3
\* most runs of equal characters in a text whose chunk_text loop is followed step by step
MaxLoopRuns == 2
\* the chunks list of a followed chunk_text loop is followed up to this length
MaxChunks == 12
\* most calls of the client getters one thread makes
MaxGetterCalls == 2
\* most entries of a TraceLog
MaxEntries == 2

\* ------------------------------------------------------- program constants
\* the literal 1 of "1 - distance", in hundredths
One == 100
\* config.MIN_SIMILARITY_SCORE = 0.5
MIN_SIMILARITY_SCORE == 50
\* min_score=0.3 passed by both tools
TOOL_MIN_SCORE == 30
\* top_k_per_query=3 passed by multi_search_retail_documents
TOOL_TOP_K_PER_QUERY == 3

\* --------------------------------------------------------------- universe
\* document names, as character sequences
DocA == <<"a">>
DocB == <<"a", "_", "1">>

\* what the vector index holds: the metadata index_chunks stored per chunk
IndexedChunks ==
    { [document_name |-> DocA, page_number |-> 1, chunk_index |-> 0, text |-> "t1"],
      [document_name |-> DocA, page_number |-> 1, chunk_index |-> 1, text |-> "t2"],
      [document_name |-> DocB, page_number |-> 1, chunk_index |-> 0, text |-> "t3"] }

\* cosine distances the index may report (similarities 0.9, 0.7, 0.3)
Distances == {10, 30, 70}

\* result caps callers pass in the top_k argument
TopKs == {1, 2}

\* similarity floors callers pass: the tools' 0.3, the configured default, and 0.7
MinScores == {TOOL_MIN_SCORE, MIN_SIMILARITY_SCORE, 70}

\* characters of the multi-search tool's argument
Alphabet == {"a", ",", " "}

\* characters of page texts, and the lengths of their runs
RunChars == {"a", " ", "\n"}

RunLengths == {1, 99, 100}

\* window sizes and overlaps callers pass to chunk_text (overlap < size)
ChunkSizes == {100, 102, 150}

ChunkOverlaps == {0, 50}

\* overlaps that are not below every window size
LargeOverlaps == {150, 200}

\* ---------------------------------------------------------------- helpers
Min(a, b) == IF a < b THEN a ELSE b

Max(a, b) == IF a > b THEN a ELSE b

SeqsUpTo(S, n) == UNION { [1..m -> S] : m \in 0..n }

Injective(s) == \A i, j \in DOMAIN s : s[i] = s[j] => i = j

\* every ordering of a finite set
Orderings(S) == { s \in [1..Cardinality(S) -> S] : Injective(s) }

Range(s) == { s[i] : i \in DOMAIN s }

Digit(n) ==
    CASE n = 0 -> "0" [] n = 1 -> "1" [] n = 2 -> "2" [] n = 3 -> "3"
      [] n = 4 -> "4" [] n = 5 -> "5" [] n = 6 -> "6" [] n = 7 -> "7"
      [] n = 8 -> "8" [] n = 9 -> "9"

RECURSIVE Str(_)
\* str(n) of a non-negative integer, one token per digit
Str(n) == IF n < 10 THEN <<Digit(n)>> ELSE Str(n \div 10) \o <<Digit(n % 10)>>

\* the query strings of direct callers: "q1", "q2", ...
Query(i) == <<"q">> \o Str(i)

Queries == { Query(i) : i \in 1..MaxQueries }

\* the query lists direct callers hand to multi_query_retrieval
QueryLists == { [i \in 1..n |-> Query(i)] : n \in 0..MaxQueries }

RECURSIVE Join(_, _)
\* sep.join(parts)
Join(parts, sep) ==
    IF parts = <<>> THEN <<>>
    ELSE IF Len(parts) = 1 THEN parts[1]
    ELSE parts[1] \o sep \o Join(Tail(parts), sep)

\* a function's outcome: a value, or an exception that escaped it
Returns(v) == [raised |-> FALSE, value |-> v]

Raises == [raised |-> TRUE, value |-> <<>>]

\* characters str.strip() removes from the two ends
Whitespace == {" ", "\n"}

\* the place of the last character of s that is not whitespace, found from the
\* right end; s holds such a character
LastNonWhitespace(s) ==
    Len(s) - CHOOSE k \in 0..(Len(s) - 1) :
                 /\ s[Len(s) - k] \notin Whitespace
                 /\ \A j \in 0..(k - 1) : s[Len(s) - j] \in Whitespace

\* s.strip()
Strip(s) ==
    IF \A i \in DOMAIN s : s[i] \in Whitespace THEN <<>>
    ELSE SubSeq(s,
                CHOOSE i \in DOMAIN s :
                    s[i] \notin Whitespace /\ \A j \in 1..(i - 1) : s[j] \in Whitespace,
                LastNonWhitespace(s))

\* n copies of the character ch
Rep(ch, n) == [i \in 1..n |-> ch]

\* ------------------------------------------------------------- ingestion
\* config.CHUNK_SIZE, config.CHUNK_OVERLAP, config.MIN_CHUNK_SIZE
CHUNK_SIZE == 1000
CHUNK_OVERLAP == 200
MIN_CHUNK_SIZE == 100

\* a slice bound as Python reads it: a negative one counts from the end, and both
\* kinds are clamped to 0..n
SliceBound(i, n) == IF i < 0 THEN Max(i + n, 0) ELSE Min(i, n)

\* text[i] raises IndexError unless -len(text) <= i < len(text)
IndexInRange(text, i) == -Len(text) <= i /\ i < Len(text)

\* text[i] for an index in range, a negative one counting from the end
CharAt(text, i) == text[(IF i < 0 THEN i + Len(text) ELSE i) + 1]

\* text[start:end]
Slice(text, start, end) ==
    SubSeq(text, SliceBound(start, Len(text)) + 1, SliceBound(end, Len(text)))

\* text.rfind(" ", start, end) for 0 <= start <= end <= len(text)
RFindSpace(text, start, end) ==
    IF \A i \in start..(end - 1) : text[i + 1] # " " THEN -1
    ELSE CHOOSE i \in start..(end - 1) :
             text[i + 1] = " " /\ \A j \in (i + 1)..(end - 1) : text[j + 1] # " "

\* the right edge of the window that starts at start: start + chunk_size, moved back
\* to the last space of the window when it falls inside a word
WindowEnd(text, start, chunk_size) ==
    LET end == start + chunk_size
    IN  IF end < Len(text) /\ CharAt(text, end) # " "
        THEN LET last_space == RFindSpace(text, SliceBound(start, Len(text)),
                                          SliceBound(end, Len(text)))
             IN  IF last_space > start THEN last_space ELSE end
        ELSE end

\* a loop that starts the next window chunk_overlap before the cut it just made
NextStartAfterCut(start, end, chunk_size, chunk_overlap) == end - chunk_overlap

\* start += chunk_size - chunk_overlap
NextStart(start, end, chunk_size, chunk_overlap) == start + chunk_size - chunk_overlap

\* a floor that measures the window before it is stripped
KeepChunkUnstripped(chunk) == Len(chunk) >= MIN_CHUNK_SIZE

\* if len(chunk.strip()) >= MIN_CHUNK_SIZE
KeepChunk(chunk) == Len(Strip(chunk)) >= MIN_CHUNK_SIZE

RECURSIVE ChunkLoop(_, _, _, _, _)
\* the while loop of chunk_text, from the window start it has reached
ChunkLoop(text, start, chunk_size, chunk_overlap, chunks) ==
    IF ~(start < Len(text)) THEN chunks
    ELSE LET end   == WindowEnd(text, start, chunk_size)
             chunk == Slice(text, start, end)
         IN  ChunkLoop(text, NextStart(start, end, chunk_size, chunk_overlap),
                       chunk_size, chunk_overlap,
                       IF KeepChunk(chunk) THEN Append(chunks, Strip(chunk)) ELSE chunks)

\* chunk_text(text, chunk_size, chunk_overlap), for chunk_overlap < chunk_size
ChunkText(text, chunk_size, chunk_overlap) ==
    ChunkLoop(text, 0, chunk_size, chunk_overlap, <<>>)

RECURSIVE WindowsFrom(_, _, _, _)
\* the windows text[start:end] the loop of chunk_text cuts, kept or not
WindowsFrom(text, start, chunk_size, chunk_overlap) ==
    IF ~(start < Len(text)) THEN <<>>
    ELSE <<Slice(text, start, WindowEnd(text, start, chunk_size))>>
         \o WindowsFrom(text,
                        NextStart(start, WindowEnd(text, start, chunk_size),
                                  chunk_size, chunk_overlap),
                        chunk_size, chunk_overlap)

\* hashlib.md5(s.encode()).hexdigest(), taken to be free of collisions
MD5(s) == [md5_of |-> s]

\* a chunk id that leaves the page number out
GenerateChunkIdNoPage(document_name, page_number, chunk_index) ==
    MD5(document_name \o <<"_">> \o Str(chunk_index))

\* generate_chunk_id
GenerateChunkId(document_name, page_number, chunk_index) ==
    MD5(document_name \o <<"_">> \o Str(page_number) \o <<"_">> \o Str(chunk_index))

\* load_pdf on a readable file: the pages whose text is not blank, numbered from 1
\* by their place in the file
LoadPdf(raw_pages) ==
    SelectSeq([i \in DOMAIN raw_pages |-> <<i, raw_pages[i]>>],
              LAMBDA p : Strip(p[2]) # <<>>)

\* the DocumentChunks process_document builds from one page
PageChunks(document_name, page_number, page_text) ==
    LET text_chunks == ChunkText(page_text, CHUNK_SIZE, CHUNK_OVERLAP)
    IN  [k \in DOMAIN text_chunks |->
           [ chunk_id      |-> GenerateChunkId(document_name, page_number, k - 1),
             text          |-> text_chunks[k],
             document_name |-> document_name,
             page_number   |-> page_number,
             chunk_index   |-> k - 1 ]]

RECURSIVE ChunksOfPages(_, _)
ChunksOfPages(document_name, pages) ==
    IF pages = <<>> THEN <<>>
    ELSE PageChunks(document_name, pages[1][1], pages[1][2])
         \o ChunksOfPages(document_name, Tail(pages))

\* process_document: the chunks of the file's pages; an exception of load_pdf is
\* caught and answered with the empty list
ProcessDocument(document_name, file) ==
    IF ~file.readable THEN Returns(<<>>)
    ELSE Returns(ChunksOfPages(document_name, LoadPdf(file.raw_pages)))

\* DocumentChunk.get_citation
GetCitation(document_name, page_number, chunk_index) ==
    document_name \o <<", Page ">> \o Str(page_number)
                  \o <<", Chunk ">> \o Str(chunk_index)

\* ---------------------------------------------------------- vector index
\* one entry of collection.query's answer: document, metadata, distance
Hit(c, d) ==
    [ document |-> c.text,
      metadata |-> [ document_name |-> c.document_name,
                     page_number   |-> c.page_number,
                     chunk_index   |-> c.chunk_index,
                     citation      |-> GetCitation(c.document_name, c.page_number,
                                                   c.chunk_index) ],
      distance |-> d ]

\* the answers collection.query(n_results=top_k) can give: at most top_k
\* entries, no entry twice
QueryResults(top_k) ==
    { [i \in DOMAIN cs |-> Hit(cs[i], ds[i])] :
        <<cs, ds>> \in UNION { { <<c, d>> : c \in { x \in [1..m -> IndexedChunks] : Injective(x) },
                                           d \in [1..m -> Distances] } :
                               m \in 0..Min(top_k, Cardinality(IndexedChunks)) } }

\* what the outside world does during one search_documents call
Responses(top_k) ==
    { [kind |-> "embed_error", hits |-> <<>>], [kind |-> "query_error", hits |-> <<>>] }
    \cup { [kind |-> "ok", hits |-> h] : h \in QueryResults(top_k) }

\* the same, tabulated per result cap
ResponsesFor == [top_k \in TopKs \cup {TOOL_TOP_K_PER_QUERY} |-> Responses(top_k)]


\* ------------------------------------------------------------- retrieval
\* similarity_score = 1 - distance
Similarity(distance) == One - distance

\* the gate of search_documents: a hit is skipped when its score is below the floor
KeepHitStrict(similarity_score, min_score) == similarity_score > min_score

KeepHit(similarity_score, min_score) == ~(similarity_score < min_score)

\* RetrievedChunk(...) built from one entry of the index's answer
RetrievedChunk(hit) ==
    [ text             |-> hit.document,
      document_name    |-> hit.metadata.document_name,
      page_number      |-> hit.metadata.page_number,
      chunk_index      |-> hit.metadata.chunk_index,
      citation         |-> hit.metadata.citation,
      similarity_score |-> Similarity(hit.distance) ]

\* a loop that puts each kept hit in front of the earlier ones
GateHitsPrepending(hits, min_score) ==
    LET kept == SelectSeq([i \in DOMAIN hits |-> RetrievedChunk(hits[i])],
                          LAMBDA c : KeepHit(c.similarity_score, min_score))
    IN  [i \in DOMAIN kept |-> kept[Len(kept) + 1 - i]]

\* the for loop of search_documents over the index's answer
GateHits(hits, min_score) ==
    SelectSeq([i \in DOMAIN hits |-> RetrievedChunk(hits[i])],
              LAMBDA c : KeepHit(c.similarity_score, min_score))

\* get_collection: the cached handle, else a fetch whose exception becomes None
GetCollection(cache, exists) == IF cache THEN TRUE ELSE exists

\* _collection_cache after get_collection
CacheAfterGet(cache, exists) == cache \/ exists

\* generate_embeddings raises without an API key or when the API call fails
EmbeddingRaises(key, resp) == (~key) \/ resp.kind = "embed_error"

\* collection.query raises
QueryRaises(resp) == resp.kind = "query_error"

\* the except clauses of search_documents
OnEmbeddingErrorPropagate == Raises

OnEmbeddingError == Returns(<<>>)

OnQueryError == Returns(<<>>)

\* search_documents, given the collection handle (or None) and what the
\* embedding gateway and the index do during the call
SearchDocuments(collection, key, resp, min_score) ==
    IF ~collection THEN Returns(<<>>)
    ELSE IF EmbeddingRaises(key, resp) THEN OnEmbeddingError
    ELSE IF QueryRaises(resp) THEN OnQueryError
    ELSE IF resp.hits = <<>> THEN Returns(<<>>)
    ELSE Returns(GateHits(resp.hits, min_score))

RECURSIVE DedupFirstSeen(_)
\* list(dict.fromkeys(xs))
DedupFirstSeen(xs) ==
    IF xs = <<>> THEN <<>>
    ELSE LET front == DedupFirstSeen(SubSeq(xs, 1, Len(xs) - 1))
             last  == xs[Len(xs)]
         IN  IF last \in Range(front) THEN front ELSE Append(front, last)

\* a grouping that keeps only the last chunk of each document
GroupByDocumentLastOnly(chunks) ==
    [ d \in { chunks[i].document_name : i \in DOMAIN chunks } |->
        LET mine == SelectSeq(chunks, LAMBDA c : c.document_name = d)
        IN  <<mine[Len(mine)]>> ]

\* chunks_by_doc of retrieve_with_context: document name -> its chunks, in order
GroupByDocument(chunks) ==
    [ d \in { chunks[i].document_name : i \in DOMAIN chunks } |->
        SelectSeq(chunks, LAMBDA c : c.document_name = d) ]

\* the "[Source i] citation\ntext\n" parts joined by "\n---\n"
BuildContext(chunks) ==
    Join([i \in DOMAIN chunks |->
            <<"[Source ">> \o Str(i) \o <<"] ">> \o chunks[i].citation
                \o <<"\n", chunks[i].text, "\n">>],
         <<"\n---\n">>)

NotFoundPrefix == "Not found in sources"

\* the empty-result text of format_results_for_display
NoResultsFound == <<"No results found.">>

\* the not-found message of retrieve_with_context
SingleNotFoundMessage ==
    <<NotFoundPrefix,
      ". The available documents do not contain information to answer this query.">>

\* the not-found message of multi_query_retrieval
MultiNotFoundMessage == <<NotFoundPrefix, ".">>

\* retrieve_with_context after its search_documents call returned chunks
RetrieveWithContext(chunks) ==
    IF chunks = <<>>
    THEN [ found |-> FALSE, message |-> SingleNotFoundMessage, chunks |-> <<>>,
           context |-> <<>>, citations |-> <<>> ]
    ELSE [ found |-> TRUE,
           message |-> <<"Found ">> \o Str(Len(chunks)) \o <<" relevant chunks from ">>
                       \o Str(Cardinality(DOMAIN GroupByDocument(chunks)))
                       \o <<" documents.">>,
           chunks |-> chunks,
           context |-> BuildContext(chunks),
           citations |-> DedupFirstSeen([i \in DOMAIN chunks |-> chunks[i].citation]),
           chunks_by_document |-> GroupByDocument(chunks) ]

\* the dedup key of multi_query_retrieval: f"{document_name}_{page_number}_{chunk_index}"
ChunkKey(chunk) ==
    chunk.document_name \o <<"_">> \o Str(chunk.page_number)
                        \o <<"_">> \o Str(chunk.chunk_index)

\* all with the entry of c's key replaced by c
ReplaceEntry(all, c) ==
    [i \in DOMAIN all |-> IF ChunkKey(all[i]) = ChunkKey(c) THEN c ELSE all[i]]

\* all with the entry of c's key replaced by c when c scores higher
ReplaceIfBetter(all, c) ==
    [i \in DOMAIN all |->
        IF ChunkKey(all[i]) = ChunkKey(c) /\ all[i].similarity_score < c.similarity_score
        THEN c ELSE all[i]]

RECURSIVE MergeChunksLastWins(_, _, _)
\* a merge in which a later occurrence overwrites the earlier one
MergeChunksLastWins(all, seen, chunks) ==
    IF chunks = <<>> THEN <<all, seen>>
    ELSE LET c == Head(chunks)
         IN  IF ChunkKey(c) \notin seen
             THEN MergeChunksLastWins(Append(all, c), seen \cup {ChunkKey(c)}, Tail(chunks))
             ELSE MergeChunksLastWins(ReplaceEntry(all, c), seen, Tail(chunks))

RECURSIVE MergeChunksKeepBest(_, _, _)
\* a merge that keeps, per key, the occurrence with the highest score
MergeChunksKeepBest(all, seen, chunks) ==
    IF chunks = <<>> THEN <<all, seen>>
    ELSE LET c == Head(chunks)
         IN  IF ChunkKey(c) \notin seen
             THEN MergeChunksKeepBest(Append(all, c), seen \cup {ChunkKey(c)}, Tail(chunks))
             ELSE MergeChunksKeepBest(ReplaceIfBetter(all, c), seen, Tail(chunks))

RECURSIVE MergeChunks(_, _, _)
\* the inner loop of multi_query_retrieval over one query's chunks:
\* <<all_chunks, seen_ids>> after it
MergeChunks(all, seen, chunks) ==
    IF chunks = <<>> THEN <<all, seen>>
    ELSE LET c == Head(chunks)
         IN  IF ChunkKey(c) \notin seen
             THEN MergeChunks(Append(all, c), seen \cup {ChunkKey(c)}, Tail(chunks))
             ELSE MergeChunks(all, seen, Tail(chunks))

RECURSIVE InsertByScore(_, _)
\* c placed behind every element whose score is not lower (the sort is stable)
InsertByScore(sorted, c) ==
    IF sorted = <<>> THEN <<c>>
    ELSE IF Head(sorted).similarity_score < c.similarity_score
         THEN <<c>> \o sorted
         ELSE <<Head(sorted)>> \o InsertByScore(Tail(sorted), c)

\* a merge that leaves the chunks in arrival order
UnsortedChunks(chunks) == chunks

RECURSIVE SortByScoreDesc(_)
\* all_chunks.sort(key=lambda x: x.similarity_score, reverse=True)
SortByScoreDesc(chunks) ==
    IF chunks = <<>> THEN <<>>
    ELSE InsertByScore(SortByScoreDesc(SubSeq(chunks, 1, Len(chunks) - 1)),
                       chunks[Len(chunks)])

\* the return of multi_query_retrieval once the loop over the queries is over
MultiQueryResult(all, nqueries) ==
    LET sorted == SortByScoreDesc(all)
    IN  IF sorted = <<>>
        THEN [ found |-> FALSE, message |-> MultiNotFoundMessage, chunks |-> <<>>,
               context |-> <<>>, citations |-> <<>> ]
        ELSE [ found |-> TRUE,
               message |-> <<"Found ">> \o Str(Len(sorted)) \o <<" unique chunks across ">>
                           \o Str(nqueries) \o <<" queries.">>,
               chunks |-> sorted,
               context |-> BuildContext(sorted),
               citations |-> DedupFirstSeen([i \in DOMAIN sorted |-> sorted[i].citation]) ]


\* ------------------------------------------------------------ prompting
\* f"{x:.3f}" of a score given in hundredths (0 <= score)
FormatScore(score) ==
    Str(score \div One) \o <<".">> \o <<Digit((score % One) \div 10), Digit(score % 10), "0">>

\* format_context_for_agent(chunks, include_scores=True)
FormatContextForAgent(chunks) ==
    IF chunks = <<>> THEN <<"No relevant information found in the documents.">>
    ELSE Join(<< <<"# Retrieved Information\n">>,
                 <<"Found ">> \o Str(Len(chunks)) \o <<" relevant sources:\n">> >>
              \o [i \in DOMAIN chunks |->
                    Join(<< <<"\n## Source ">> \o Str(i),
                            <<"**Citation:** ">> \o chunks[i].citation,
                            <<"**Relevance Score:** ">>
                                \o FormatScore(chunks[i].similarity_score),
                            <<"\n**Content:**\n", chunks[i].text>>,
                            <<"\n----------------------------------------------------------------------">> >>,
                         <<"\n">>)],
              <<"\n">>)

\* the citations of the chunks, as the set format_citations builds
CitationSet(chunks) == { chunks[i].citation : i \in DOMAIN chunks }

\* format_citations, for one iteration order of its set of citations
FormatCitations(chunks, order) ==
    IF chunks = <<>> THEN <<"No sources">>
    ELSE Join([i \in DOMAIN order |-> Str(i) \o <<". ">> \o order[i]], <<"\n">>)

\* ----------------------------------------------------------------- tools
\* the not-found return of search_retail_documents
SearchToolNotFound ==
    <<NotFoundPrefix,
      ". The available documents do not contain information relevant to this query.">>

\* the not-found return of multi_search_retail_documents
MultiToolNotFound ==
    <<NotFoundPrefix,
      ". None of the queries returned relevant results from the document set.">>

\* the return of multi_search_retail_documents for an empty query list
NoValidQueries == <<"No valid queries provided.">>

\* a search tool without the not-found branch
SearchRetailDocumentsUnguarded(results, order) ==
    FormatContextForAgent(results.chunks) \o <<"\n\n## Citations\n">>
    \o FormatCitations(results.chunks, order)

\* search_retail_documents after retrieve_with_context returned results
SearchRetailDocuments(results, order) ==
    IF ~results.found THEN SearchToolNotFound
    ELSE FormatContextForAgent(results.chunks) \o <<"\n\n## Citations\n">>
         \o FormatCitations(results.chunks, order)

\* multi_search_retail_documents after multi_query_retrieval returned results
MultiSearchRetailDocuments(results, order, nqueries) ==
    IF ~results.found THEN MultiToolNotFound
    ELSE <<"Combined results from ">> \o Str(nqueries) \o <<" queries:\n\n">>
         \o FormatContextForAgent(results.chunks) \o <<"\n\n## Citations\n">>
         \o FormatCitations(results.chunks, order)

RECURSIVE Split(_, _)
\* s.split(sep) for a one-character separator
Split(s, sep) ==
    IF \A i \in DOMAIN s : s[i] # sep THEN <<s>>
    ELSE LET k == CHOOSE i \in DOMAIN s : s[i] = sep /\ \A j \in 1..(i - 1) : s[j] # sep
         IN  <<SubSeq(s, 1, k - 1)>> \o Split(SubSeq(s, k + 1, Len(s)), sep)

\* query_list = [q.strip() for q in queries.split(",") if q.strip()]
ParseQueryList(queries) ==
    LET parts == Split(queries, ",")
    IN  SelectSeq([i \in DOMAIN parts |-> Strip(parts[i])], LAMBDA q : q # <<>>)


\* --------------------------------------------------------------- pipeline
\* Optional[T]: None is <<>>, a value v is <<v>>
None == <<>>

Some(v) == <<v>>

Requests == {"request 1", "request 2"}

\* ExecutionPlan values the planner's completion may return
Plans ==
    { [task_summary |-> t, sub_tasks |-> <<"sub-task">>,
       research_queries |-> <<[query |-> "inventory accuracy", purpose |-> "why"]>>,
       focus_areas |-> <<"inventory">>] : t \in {"plan 1", "plan 2"} }

\* citations a finding may carry: those of the indexed chunks, and one of a page
\* the index does not hold
NoteCitations ==
    { GetCitation(c.document_name, c.page_number, c.chunk_index) : c \in IndexedChunks }
    \cup { GetCitation(DocA, 9, 0) }

ResearchFinding(citation) ==
    [finding |-> "fact", citation |-> citation, relevance |-> "direct"]

\* ResearchNotes values the researcher's completion may return: every value of the
\* schema, whose citation fields are plain str
Notes ==
    { [findings |-> f, gaps |-> g,
       sources_used |-> [i \in DOMAIN f |-> f[i].citation],
       summary |-> "summary"] :
        f \in {<<>>} \cup { <<ResearchFinding(c)>> : c \in NoteCitations },
        g \in { <<>>, <<"Not found in sources.">> } }

ActionItem(a, c) == [action |-> a, owner |-> "ops", due_date |-> "Q1", confidence |-> c]

\* Deliverable values the writer's completion may return
Deliverables ==
    { [executive_summary |-> e, client_email |-> "draft email",
       action_items |-> <<ActionItem("act", "High"), ActionItem("guess", "Low")>>,
       sources |-> <<"a, Page 1, Chunk 0">>] : e \in {"draft summary 1", "draft summary 2"} }

\* overall_verdict is a str field: the three verdicts, and a string that is none of them
Verdicts == {"PASS", "FAIL", "PARTIAL", "UNSURE"}

\* ClaimVerification: verdict is a str field, one of three values by its description
ClaimVerdicts == {"SUPPORTED", "PARTIALLY SUPPORTED", "NOT SUPPORTED"}

ClaimVerification(claim, verdict) ==
    [claim |-> claim, verdict |-> verdict,
     supporting_sources |-> <<"a, Page 1, Chunk 0">>, explanation |-> "found"]

\* the verified_claims lists of the reports: all supported, one only partially
\* supported, one not supported
ClaimLists ==
    { <<ClaimVerification("fact", "SUPPORTED")>>,
      <<ClaimVerification("fact", "SUPPORTED"),
        ClaimVerification("detail", "PARTIALLY SUPPORTED")>>,
      <<ClaimVerification("fact", "SUPPORTED"),
        ClaimVerification("guess", "NOT SUPPORTED")>> }

\* VerificationReport values the verifier's completion may return: every value of
\* the schema, whose overall_verdict is a str and whose three corrected fields are
\* Optional with default None; no validator relates the fields to each other
Reports ==
    { [overall_verdict |-> v,
       verified_claims |-> cl,
       unsupported_claims |-> <<>>,
       suggestions |-> <<>>,
       corrected_executive_summary |-> cs,
       corrected_client_email |-> ce,
       corrected_action_items |-> ca] :
        v \in Verdicts,
        cl \in ClaimLists,
        cs \in {None, Some("corrected summary")},
        ce \in {None, Some("corrected email")},
        ca \in {None, Some(<<>>), Some(<<ActionItem("act", "Medium")>>)} }

\* what Runner.run_sync does: it raises (timeout, malformed structured output,
\* max_turns exceeded) or it returns a value of the agent's output_type
Completions(outputs) ==
    {[failed |-> TRUE, output |-> None]} \cup { [failed |-> FALSE, output |-> Some(o)] : o \in outputs }

\* the prompt each stage function builds from its arguments
PlannerPrompt(user_request) == [user_request |-> user_request]

ResearcherPrompt(plan, user_request) == [plan |-> plan, user_request |-> user_request]

WriterPrompt(research, user_request) == [research |-> research, user_request |-> user_request]

\* a verifier prompt without the research notes
VerifierPromptDraftOnly(draft, research) == [draft |-> draft]

VerifierPrompt(draft, research) == [draft |-> draft, research |-> research]

\* a stage function that answers a failed completion with an empty record
RunStageSwallowing(completion) ==
    IF completion.failed THEN Returns(None) ELSE Returns(completion.output)

\* run_planner / run_researcher / run_writer / run_verifier: result.final_output of
\* the one Runner.run_sync call; its exception is not caught
RunStage(completion) ==
    IF completion.failed THEN Raises ELSE Returns(completion.output)

\* a merge that takes the draft whenever the verdict is not FAIL
DeliverUnlessFail(draft, verification) ==
    IF verification.overall_verdict # "FAIL" THEN draft
    ELSE [ executive_summary |->
               IF verification.corrected_executive_summary # None
               THEN verification.corrected_executive_summary[1]
               ELSE draft.executive_summary,
           client_email |->
               IF verification.corrected_client_email # None
               THEN verification.corrected_client_email[1]
               ELSE draft.client_email,
           action_items |->
               IF verification.corrected_action_items # None
               THEN verification.corrected_action_items[1]
               ELSE draft.action_items,
           sources |-> draft.sources ]

\* the Deliver stage: the draft on PASS, else each corrected field where present and
\* the draft's field where not
Deliver(draft, verification) ==
    IF verification.overall_verdict = "PASS" THEN draft
    ELSE [ executive_summary |->
               IF verification.corrected_executive_summary # None
               THEN verification.corrected_executive_summary[1]
               ELSE draft.executive_summary,
           client_email |->
               IF verification.corrected_client_email # None
               THEN verification.corrected_client_email[1]
               ELSE draft.client_email,
           action_items |->
               IF verification.corrected_action_items # None
               THEN verification.corrected_action_items[1]
               ELSE draft.action_items,
           sources |-> draft.sources ]

\* PipelineResult(plan=..., research=..., draft=..., verification=..., final_deliverable=...)
PipelineResult(plan, research, draft, verification, final_deliverable) ==
    [ plan |-> plan, research |-> research, draft |-> draft,
      verification |-> verification, final_deliverable |-> final_deliverable ]

\* ------------------------------------------------------------------ state
VARIABLES
    collectionExists,   \* the persistent store holds the collection
    apiKey,             \* OPENAI_API_KEY is set
    collection_cache,   \* retrieval._collection_cache holds the collection
    pc,                 \* "idle", "mq_loop" (inside multi_query_retrieval's loop), "done"
    op,                 \* the function the caller invoked
    args,               \* its arguments
    queries_left,       \* multi_query_retrieval: the queries not yet run
    all_chunks,         \* multi_query_retrieval: all_chunks
    seen_ids,           \* multi_query_retrieval: seen_ids
    results,            \* the dict retrieve_with_context / multi_query_retrieval returned
    ret,                \* the value the invoked function returned
    raised,             \* an exception escaped the invoked function
    lastResp,           \* what the embedding gateway and the index did in the last search
    searches,           \* search_documents calls made by the running invocation
    failures,           \* ... of which hit a missing collection or a failing call
    first_from,         \* per chunk identity, the chunk as the first search to return it gave it
    later,              \* <<identity, score>> of every later return of a chunk already returned
    p_stage,            \* run_pipeline: "start", "planned", "researched", "drafted",
                        \*   "verified", "delivered", or "failed"
    user_request,       \* run_pipeline's argument
    plan,               \* the ExecutionPlan, once produced (Optional)
    research,           \* the ResearchNotes, once produced (Optional)
    draft,              \* the Deliverable, once produced (Optional)
    verification,       \* the VerificationReport, once produced (Optional)
    pipeline_result,    \* what run_pipeline returned (Optional)
    stage_log,          \* the stages run so far, each with the prompt it consumed
    failed_call,        \* the stage whose reasoning call failed, or "none"
    tool_calls,         \* search tool calls made by the researcher's completion
    tool_citations,     \* the citations that appeared in the results of those calls
    data_dir,           \* the PDF files ingest_all_documents found in DATA_DIR:
                        \*   name |-> readable?, text of each page
    i_pc,               \* "idle", "chunked" (chunk_text returned), "ingest_loop"
                        \*   (inside ingest_all_documents' loop), "ingested"
    i_args,             \* the arguments of the chunk_text call
    i_chunks,           \* the list chunk_text returned
    pdf_files,          \* ingest_all_documents: the files not yet processed
    doc_chunks,         \* ingest_all_documents: all_chunks
    i_raised,           \* an exception escaped ingest_all_documents
    load_failed,        \* the files whose load_pdf raised during this ingestion
    ct_pc,              \* a chunk_text call followed step by step: "idle", "loop",
                        \*   "returned", or "raised" (IndexError)
    ct_args,            \* its arguments
    ct_start,           \* its local start
    ct_chunks,          \* its local chunks
    env_key,            \* os.getenv("OPENAI_API_KEY") gives a value
    client_cache,       \* indexing._openai_client and indexing._chroma_client: 0 is
                        \*   None, n > 0 the n-th client object constructed
    constructed,        \* per client kind, the client objects constructed so far
    returned,           \* per client kind, the handles the getter calls returned
    th_pc,              \* per thread, its place in a getter: "idle", "test", "getenv",
                        \*   "construct", "assign", "return", "raised"
    th_fn,              \* per thread, the getter it is in: "openai" or "chroma"
    th_local,           \* per thread, the client object it constructed and has not
                        \*   stored yet (0: none)
    th_calls,           \* per thread, the getter calls it has made
    tr_entries,         \* TraceLog.entries
    tr_started,         \* TraceLog.pipeline_start has been set
    tr_ended,           \* TraceLog.pipeline_end has been set
    tr_begun,           \* history: the <<agent_name, stage>> of every begin call, in order
    tr_view,            \* what the last TraceLog operation returned (Optional)
    store_exists,       \* the persistent store holds the collection build_index writes
    store_entries,      \* the entries of that collection: id, document, metadata
    b_pc,               \* build_index: "idle", "ingested", "embedding", "storing",
                        \*   "returned", "raised"
    b_dir,              \* the DATA_DIR this run ingests
    b_reset,            \* its argument reset
    b_chunks,           \* its local chunks
    b_stored,           \* index_chunks: the batches stored so far
    b_ret               \* what build_index returned: "none" or "collection" (Optional)

retrievalVars ==
    <<collectionExists, apiKey, collection_cache, pc, op, args, queries_left, all_chunks,
      seen_ids, results, ret, raised, lastResp, searches, failures, first_from, later>>

pipelineVars ==
    <<p_stage, user_request, plan, research, draft, verification, pipeline_result,
      stage_log, failed_call, tool_calls, tool_citations>>

ingestVars ==
    <<data_dir, i_pc, i_args, i_chunks, pdf_files, doc_chunks, i_raised, load_failed>>

chunkerVars == <<ct_pc, ct_args, ct_start, ct_chunks>>

\* the variables of the parts that the retrieval, pipeline and ingestion steps leave alone
clientVars ==
    <<env_key, client_cache, constructed, returned, th_pc, th_fn, th_local, th_calls>>

traceVars == <<tr_entries, tr_started, tr_ended, tr_begun, tr_view>>

buildVars ==
    <<store_exists, store_entries, b_pc, b_dir, b_reset, b_chunks, b_stored, b_ret>>

auxVars == <<chunkerVars, clientVars, traceVars, buildVars>>

NoValue == [none |-> TRUE]

NoArgs == [queries |-> <<>>, top_k |-> 0, min_score |-> 0]

NotCalled == [kind |-> "not_called", hits |-> <<>>]

\* the identity of a chunk: its document, page and in-page index
Identity(c) == <<c.document_name, c.page_number, c.chunk_index>>

\* what the outside world was seen to do in a search: nothing is asked of it
\* without a collection, and the embedding call is not made without a key
Observed(collection, key, resp) ==
    IF ~collection THEN NotCalled
    ELSE IF ~key THEN [kind |-> "embed_error", hits |-> <<>>]
    ELSE resp

\* the search failed for one of the reasons search_documents absorbs
Failed(obs) == obs.kind \in {"not_called", "embed_error", "query_error"}

RetrievalInit ==
    /\ collectionExists \in BOOLEAN
    /\ apiKey \in BOOLEAN
    /\ collection_cache = FALSE
    /\ pc = "idle"
    /\ op = "none"
    /\ args = NoArgs
    /\ queries_left = <<>>
    /\ all_chunks = <<>>
    /\ seen_ids = {}
    /\ results = NoValue
    /\ ret = NoValue
    /\ raised = FALSE
    /\ lastResp = NotCalled
    /\ searches = 0
    /\ failures = 0
    /\ first_from = {}
    /\ later = {}

\* the bookkeeping of one search made outside the multi-query loop
SingleSearch(q, top_k, min_score, resp, name) ==
    /\ pc = "idle"
    /\ pc' = "done"
    /\ op' = name
    /\ args' = [queries |-> <<q>>, top_k |-> top_k, min_score |-> min_score]
    /\ collection_cache' = CacheAfterGet(collection_cache, collectionExists)
    /\ lastResp' = Observed(GetCollection(collection_cache, collectionExists), apiKey, resp)
    /\ searches' = 1
    /\ failures' = IF Failed(lastResp') THEN 1 ELSE 0
    /\ UNCHANGED <<collectionExists, apiKey, queries_left, all_chunks, seen_ids,
                   first_from, later>>
    /\ UNCHANGED pipelineVars
    /\ UNCHANGED <<ingestVars, auxVars>>

\* a direct call of search_documents(query, top_k, min_score)
CallSearchDocuments ==
    /\ pc = "idle"
    /\ \E q \in Queries, top_k \in TopKs, min_score \in MinScores :
      \E resp \in ResponsesFor[top_k] :
        LET out == SearchDocuments(GetCollection(collection_cache, collectionExists),
                                   apiKey, resp, min_score)
        IN  /\ SingleSearch(q, top_k, min_score, resp, "search_documents")
            /\ raised' = out.raised
            /\ ret' = IF out.raised THEN NoValue ELSE [value |-> out.value]
            /\ results' = NoValue

\* a direct call of retrieve_with_context(query, top_k, min_score)
CallRetrieveWithContext ==
    /\ pc = "idle"
    /\ \E q \in Queries, top_k \in TopKs, min_score \in MinScores :
      \E resp \in ResponsesFor[top_k] :
        LET out == SearchDocuments(GetCollection(collection_cache, collectionExists),
                                   apiKey, resp, min_score)
        IN  /\ SingleSearch(q, top_k, min_score, resp, "retrieve_with_context")
            /\ raised' = out.raised
            /\ results' = IF out.raised THEN NoValue ELSE RetrieveWithContext(out.value)
            /\ ret' = IF out.raised THEN NoValue ELSE [value |-> results']

\* the tool search_retail_documents(query, top_k)
CallSearchRetailDocuments ==
    /\ pc = "idle"
    /\ \E q \in Queries, top_k \in TopKs :
      \E resp \in ResponsesFor[top_k] :
        LET out == SearchDocuments(GetCollection(collection_cache, collectionExists),
                                   apiKey, resp, TOOL_MIN_SCORE)
            res == RetrieveWithContext(out.value)
        IN  /\ SingleSearch(q, top_k, TOOL_MIN_SCORE, resp, "search_retail_documents")
            /\ raised' = out.raised
            /\ results' = IF out.raised THEN NoValue ELSE res
            /\ \E order \in Orderings(CitationSet(res.chunks)) :
                 ret' = IF out.raised THEN NoValue
                        ELSE [value |-> SearchRetailDocuments(res, order)]


\* entry into multi_query_retrieval: all_chunks = [], seen_ids = set()
EnterMultiQuery(name, query_list, top_k, min_score) ==
    /\ pc = "idle"
    /\ pc' = "mq_loop"
    /\ op' = name
    /\ args' = [queries |-> query_list, top_k |-> top_k, min_score |-> min_score]
    /\ queries_left' = query_list
    /\ all_chunks' = <<>>
    /\ seen_ids' = {}
    /\ UNCHANGED <<collectionExists, apiKey, collection_cache, results, ret, raised,
                   lastResp, searches, failures, first_from, later>>
    /\ UNCHANGED pipelineVars
    /\ UNCHANGED <<ingestVars, auxVars>>

\* a direct call of multi_query_retrieval(queries, top_k_per_query, min_score)
CallMultiQueryRetrieval ==
    /\ pc = "idle"
    /\ \E qs \in QueryLists, top_k \in TopKs, min_score \in MinScores :
        EnterMultiQuery("multi_query_retrieval", qs, top_k, min_score)

\* the tool multi_search_retail_documents(queries)
CallMultiSearchRetailDocuments ==
    /\ pc = "idle"
    /\ \E queries \in SeqsUpTo(Alphabet, MaxLen) :
        LET query_list == ParseQueryList(queries)
        IN  IF query_list = <<>>
            THEN /\ pc = "idle"
                 /\ pc' = "done"
                 /\ op' = "multi_search_retail_documents"
                 /\ args' = [queries |-> <<>>, top_k |-> TOOL_TOP_K_PER_QUERY,
                             min_score |-> TOOL_MIN_SCORE]
                 /\ ret' = [value |-> NoValidQueries]
                 /\ UNCHANGED <<collectionExists, apiKey, collection_cache, queries_left,
                                all_chunks, seen_ids, results, raised, lastResp, searches,
                                failures, first_from, later>>
                 /\ UNCHANGED pipelineVars
                 /\ UNCHANGED <<ingestVars, auxVars>>
            ELSE EnterMultiQuery("multi_search_retail_documents", query_list,
                                 TOOL_TOP_K_PER_QUERY, TOOL_MIN_SCORE)

\* one iteration of "for query in queries": a search, then the merge of its chunks
MultiQueryStep ==
    /\ pc = "mq_loop"
    /\ queries_left # <<>>
    /\ \E resp \in ResponsesFor[args.top_k] :
        LET collection == GetCollection(collection_cache, collectionExists)
            out    == SearchDocuments(collection, apiKey, resp, args.min_score)
            merged == MergeChunks(all_chunks, seen_ids, out.value)
            known  == { r.id : r \in first_from }
            n      == searches + 1
        IN  /\ collection_cache' = CacheAfterGet(collection_cache, collectionExists)
            /\ searches' = n
            /\ failures' = IF Failed(Observed(collection, apiKey, resp))
                           THEN failures + 1 ELSE failures
            /\ first_from' = first_from \cup
                   { [id |-> Identity(c), chunk |-> c] :
                       c \in { x \in Range(out.value) : Identity(x) \notin known } }
            /\ later' = later \cup
                   { <<Identity(c), c.similarity_score>> :
                       c \in { x \in Range(out.value) : Identity(x) \in known } }
            /\ IF out.raised
               THEN /\ pc' = "done"
                    /\ raised' = TRUE
                    /\ UNCHANGED <<queries_left, all_chunks, seen_ids>>
               ELSE /\ pc' = "mq_loop"
                    /\ queries_left' = Tail(queries_left)
                    /\ all_chunks' = merged[1]
                    /\ seen_ids' = merged[2]
                    /\ UNCHANGED raised
    /\ UNCHANGED <<collectionExists, apiKey, op, args, results, ret, lastResp>>
    /\ UNCHANGED pipelineVars
    /\ UNCHANGED <<ingestVars, auxVars>>

\* after the loop: the sort, the found / not-found dict, and for the tool its text
MultiQueryFinish ==
    /\ pc = "mq_loop"
    /\ queries_left = <<>>
    /\ pc' = "done"
    /\ all_chunks' = SortByScoreDesc(all_chunks)
    /\ results' = MultiQueryResult(all_chunks, Len(args.queries))
    /\ IF op = "multi_search_retail_documents"
       THEN \E order \in Orderings(CitationSet(results'.chunks)) :
              ret' = [value |-> MultiSearchRetailDocuments(results', order,
                                                           Len(args.queries))]
       ELSE ret' = [value |-> results']
    /\ UNCHANGED <<collectionExists, apiKey, collection_cache, op, args, queries_left,
                   seen_ids, raised, lastResp, searches, failures, first_from, later>>
    /\ UNCHANGED pipelineVars
    /\ UNCHANGED <<ingestVars, auxVars>>

\* the caller takes the return value; the next invocation starts afresh
Return ==
    /\ pc = "done"
    /\ pc' = "idle"
    /\ op' = "none"
    /\ args' = NoArgs
    /\ queries_left' = <<>>
    /\ all_chunks' = <<>>
    /\ seen_ids' = {}
    /\ results' = NoValue
    /\ ret' = NoValue
    /\ raised' = FALSE
    /\ lastResp' = NotCalled
    /\ searches' = 0
    /\ failures' = 0
    /\ first_from' = {}
    /\ later' = {}
    /\ UNCHANGED <<collectionExists, apiKey, collection_cache>>
    /\ UNCHANGED pipelineVars
    /\ UNCHANGED <<ingestVars, auxVars>>

\* run_pipeline(user_request) has been called and no stage has run
PipelineInit ==
    /\ p_stage = "start"
    /\ user_request \in Requests
    /\ plan = None
    /\ research = None
    /\ draft = None
    /\ verification = None
    /\ pipeline_result = None
    /\ stage_log = <<>>
    /\ failed_call = "none"
    /\ tool_calls = 0
    /\ tool_citations = {}

\* one stage of run_pipeline: the stage function is called with the records of the
\* earlier stages; its exception ends the run, its value is kept for the later stages
StageOutcome(name, prompt, completion, out, next) ==
    /\ stage_log' = Append(stage_log, [stage |-> name, consumed |-> prompt])
    /\ failed_call' = IF completion.failed THEN name ELSE failed_call
    /\ p_stage' = IF out.raised THEN "failed" ELSE next
    /\ UNCHANGED <<user_request, pipeline_result, tool_calls, tool_citations>>
    /\ UNCHANGED retrievalVars
    /\ UNCHANGED <<ingestVars, auxVars>>

PlanStage ==
    /\ p_stage = "start"
    /\ \E completion \in Completions(Plans) :
         LET out == RunStage(completion)
         IN  /\ StageOutcome("plan", PlannerPrompt(user_request), completion, out, "planned")
             /\ plan' = IF out.raised THEN plan ELSE out.value
             /\ UNCHANGED <<research, draft, verification>>

\* one turn of the researcher's completion: it calls search_retail_documents and
\* reads the text the tool returns
ResearchToolCall ==
    /\ p_stage = "planned"
    /\ tool_calls < MaxToolCalls
    /\ \E top_k \in TopKs :
       \E resp \in ResponsesFor[top_k] :
         LET out == SearchDocuments(GetCollection(collection_cache, collectionExists),
                                    apiKey, resp, TOOL_MIN_SCORE)
             res == RetrieveWithContext(out.value)
         IN  /\ collection_cache' = CacheAfterGet(collection_cache, collectionExists)
             /\ tool_calls' = tool_calls + 1
             /\ tool_citations' = tool_citations \cup CitationSet(res.chunks)
    /\ UNCHANGED <<p_stage, user_request, plan, research, draft, verification,
                   pipeline_result, stage_log, failed_call>>
    /\ UNCHANGED <<collectionExists, apiKey, pc, op, args, queries_left, all_chunks,
                   seen_ids, results, ret, raised, lastResp, searches, failures,
                   first_from, later>>
    /\ UNCHANGED <<ingestVars, auxVars>>

ResearchStage ==
    /\ p_stage = "planned"
    /\ \E completion \in Completions(Notes) :
         LET out == RunStage(completion)
         IN  /\ StageOutcome("research", ResearcherPrompt(plan, user_request), completion,
                             out, "researched")
             /\ research' = IF out.raised THEN research ELSE out.value
             /\ UNCHANGED <<plan, draft, verification>>

DraftStage ==
    /\ p_stage = "researched"
    /\ \E completion \in Completions(Deliverables) :
         LET out == RunStage(completion)
         IN  /\ StageOutcome("draft", WriterPrompt(research, user_request), completion,
                             out, "drafted")
             /\ draft' = IF out.raised THEN draft ELSE out.value
             /\ UNCHANGED <<plan, research, verification>>

VerifyStage ==
    /\ p_stage = "drafted"
    /\ \E completion \in Completions(Reports) :
         LET out == RunStage(completion)
         IN  /\ StageOutcome("verify", VerifierPrompt(draft, research), completion,
                             out, "verified")
             /\ verification' = IF out.raised THEN verification ELSE out.value
             /\ UNCHANGED <<plan, research, draft>>

\* the Deliver stage and the return of run_pipeline
DeliverStage ==
    /\ p_stage = "verified"
    /\ p_stage' = "delivered"
    /\ stage_log' = Append(stage_log,
                           [stage |-> "deliver",
                            consumed |-> [draft |-> draft, verification |-> verification]])
    /\ pipeline_result' =
          Some(PipelineResult(plan[1], research[1], draft[1], verification[1],
                              Deliver(draft[1], verification[1])))
    /\ UNCHANGED <<user_request, plan, research, draft, verification, failed_call,
                   tool_calls, tool_citations>>
    /\ UNCHANGED retrievalVars
    /\ UNCHANGED <<ingestVars, auxVars>>

\* the texts handed to chunk_text: up to MaxRuns runs of equal characters
RunTexts ==
    { Join([i \in DOMAIN rs |-> Rep(rs[i][1], rs[i][2])], <<>>) :
        rs \in SeqsUpTo(RunChars \X RunLengths, MaxRuns) }

\* what extract_text gives for a page: nothing, a text below the floor, a text of
\* two windows
RawPageTexts == { <<>>, Rep(" ", 1) \o Rep("a", 99), Rep("a", 900) }

\* a PDF file: unreadable, or a sequence of pages
Files ==
    { [readable |-> FALSE, raw_pages |-> <<>>] }
    \cup { [readable |-> TRUE, raw_pages |-> p] : p \in SeqsUpTo(RawPageTexts, MaxPages) }

\* what DATA_DIR may hold: which of the two names exist, and what each file is
DataDirs == UNION { [names -> Files] : names \in SUBSET {DocA, DocB} }

NoChunkArgs == [text |-> <<>>, chunk_size |-> 0, chunk_overlap |-> 0]

\* no chunking or ingestion is under way
IngestIdle ==
    /\ data_dir = <<>>
    /\ i_pc = "idle"
    /\ i_args = NoChunkArgs
    /\ i_chunks = <<>>
    /\ pdf_files = <<>>
    /\ doc_chunks = <<>>
    /\ i_raised = FALSE
    /\ load_failed = {}

\* a direct call of chunk_text(text, chunk_size, chunk_overlap)
CallChunkText ==
    /\ i_pc = "idle"
    /\ \E text \in RunTexts, chunk_size \in ChunkSizes, chunk_overlap \in ChunkOverlaps :
         /\ i_args' = [text |-> text, chunk_size |-> chunk_size,
                       chunk_overlap |-> chunk_overlap]
         /\ i_chunks' = ChunkText(text, chunk_size, chunk_overlap)
    /\ i_pc' = "chunked"
    /\ UNCHANGED <<data_dir, pdf_files, doc_chunks, i_raised, load_failed>>
    /\ UNCHANGED <<retrievalVars, pipelineVars, auxVars>>

\* entry into ingest_all_documents: the glob of DATA_DIR, in the order it gives
CallIngestAllDocuments ==
    /\ i_pc = "idle"
    /\ \E dir \in DataDirs :
         /\ data_dir' = dir
         /\ \E order \in Orderings(DOMAIN dir) : pdf_files' = order
    /\ i_pc' = "ingest_loop"
    /\ doc_chunks' = <<>>
    /\ load_failed' = {}
    /\ UNCHANGED <<i_args, i_chunks, i_raised>>
    /\ UNCHANGED <<retrievalVars, pipelineVars, auxVars>>

\* one iteration of "for pdf_path in pdf_files": process_document, then extend
IngestStep ==
    /\ i_pc = "ingest_loop"
    /\ pdf_files # <<>>
    /\ LET name == Head(pdf_files)
           out  == ProcessDocument(name, data_dir[name])
       IN  /\ load_failed' = IF data_dir[name].readable THEN load_failed
                             ELSE load_failed \cup {name}
           /\ IF out.raised
              THEN /\ i_pc' = "ingested"
                   /\ i_raised' = TRUE
                   /\ UNCHANGED <<pdf_files, doc_chunks>>
              ELSE /\ pdf_files' = Tail(pdf_files)
                   /\ doc_chunks' = doc_chunks \o out.value
                   /\ UNCHANGED <<i_pc, i_raised>>
    /\ UNCHANGED <<data_dir, i_args, i_chunks>>
    /\ UNCHANGED <<retrievalVars, pipelineVars, auxVars>>

\* after the loop: ingest_all_documents returns all_chunks
IngestFinish ==
    /\ i_pc = "ingest_loop"
    /\ pdf_files = <<>>
    /\ i_pc' = "ingested"
    /\ UNCHANGED <<data_dir, i_args, i_chunks, pdf_files, doc_chunks, i_raised, load_failed>>
    /\ UNCHANGED <<retrievalVars, pipelineVars, auxVars>>

\* the caller takes the chunks; the next call starts afresh
IngestReturn ==
    /\ i_pc \in {"chunked", "ingested"}
    /\ i_pc' = "idle"
    /\ i_args' = NoChunkArgs
    /\ i_chunks' = <<>>
    /\ pdf_files' = <<>>
    /\ doc_chunks' = <<>>
    /\ i_raised' = FALSE
    /\ load_failed' = {}
    /\ data_dir' = <<>>
    /\ UNCHANGED <<retrievalVars, pipelineVars, auxVars>>

\* ---------------------------------------------- chunk_text, step by step
\* the texts whose chunking is followed: up to MaxLoopRuns runs of equal characters
LoopTexts ==
    { Join([i \in DOMAIN rs |-> Rep(rs[i][1], rs[i][2])], <<>>) :
        rs \in SeqsUpTo(RunChars \X RunLengths, MaxLoopRuns) }

\* no chunk_text call is being followed
ChunkerIdle ==
    /\ ct_pc = "idle"
    /\ ct_args = NoChunkArgs
    /\ ct_start = 0
    /\ ct_chunks = <<>>

\* chunk_text is entered: chunks = [], start = 0
EnterChunkText ==
    /\ ct_pc = "idle"
    /\ \E text \in LoopTexts, chunk_size \in ChunkSizes,
          chunk_overlap \in ChunkOverlaps \cup LargeOverlaps :
         ct_args' = [text |-> text, chunk_size |-> chunk_size,
                     chunk_overlap |-> chunk_overlap]
    /\ ct_pc' = "loop"
    /\ ct_start' = 0
    /\ ct_chunks' = <<>>
    /\ UNCHANGED <<retrievalVars, pipelineVars, ingestVars, clientVars, traceVars, buildVars>>

\* one iteration of "while start < text_length"; text[end] raises IndexError when
\* end is below -len(text).  The locals are bound by quantifiers over singletons so
\* that each is evaluated once.
ChunkStep ==
    /\ ct_pc = "loop"
    /\ ct_start < Len(ct_args.text)
    /\ Len(ct_chunks) < MaxChunks
    /\ \E text \in {ct_args.text}, end0 \in {ct_start + ct_args.chunk_size} :
         IF end0 < Len(text) /\ ~IndexInRange(text, end0)
         THEN /\ ct_pc' = "raised"
              /\ UNCHANGED <<ct_start, ct_chunks>>
         ELSE \E end \in {WindowEnd(text, ct_start, ct_args.chunk_size)} :
              \E chunk \in {Slice(text, ct_start, end)} :
                 /\ ct_chunks' = IF KeepChunk(chunk)
                                 THEN Append(ct_chunks, Strip(chunk))
                                 ELSE ct_chunks
                 /\ ct_start' = NextStart(ct_start, end, ct_args.chunk_size,
                                          ct_args.chunk_overlap)
                 /\ UNCHANGED ct_pc
    /\ UNCHANGED ct_args
    /\ UNCHANGED <<retrievalVars, pipelineVars, ingestVars, clientVars, traceVars, buildVars>>

\* the loop condition fails: return chunks
ChunkReturn ==
    /\ ct_pc = "loop"
    /\ ~(ct_start < Len(ct_args.text))
    /\ ct_pc' = "returned"
    /\ UNCHANGED <<ct_args, ct_start, ct_chunks>>
    /\ UNCHANGED <<retrievalVars, pipelineVars, ingestVars, clientVars, traceVars, buildVars>>

\* the caller has the list or the exception; the next call starts afresh
ChunkerReset ==
    /\ ct_pc \in {"returned", "raised"}
    /\ ct_pc' = "idle"
    /\ ct_args' = NoChunkArgs
    /\ ct_start' = 0
    /\ ct_chunks' = <<>>
    /\ UNCHANGED <<retrievalVars, pipelineVars, ingestVars, clientVars, traceVars, buildVars>>

\* ------------------------------------------- the cached clients of indexing.py
\* the threads of one process that run pipelines
Threads == {"t1", "t2"}

ClientKinds == {"openai", "chroma"}

\* module load: both caches are None and no thread is inside a getter
ClientsIdle ==
    /\ client_cache = [k \in ClientKinds |-> 0]
    /\ constructed = [k \in ClientKinds |-> 0]
    /\ returned = [k \in ClientKinds |-> {}]
    /\ th_pc = [t \in Threads |-> "idle"]
    /\ th_fn = [t \in Threads |-> "openai"]
    /\ th_local = [t \in Threads |-> 0]
    /\ th_calls = [t \in Threads |-> 0]

\* the key is put into the environment
ProvideKey ==
    /\ ~env_key
    /\ env_key' = TRUE
    /\ UNCHANGED <<client_cache, constructed, returned, th_pc, th_fn, th_local, th_calls>>
    /\ UNCHANGED <<retrievalVars, pipelineVars, ingestVars, chunkerVars, traceVars, buildVars>>

\* thread t enters get_openai_client or get_chroma_client
EnterGetter(t) ==
    /\ th_pc[t] = "idle"
    /\ th_calls[t] < MaxGetterCalls
    /\ \E k \in ClientKinds : th_fn' = [th_fn EXCEPT ![t] = k]
    /\ th_pc' = [th_pc EXCEPT ![t] = "test"]
    /\ th_calls' = [th_calls EXCEPT ![t] = @ + 1]
    /\ UNCHANGED <<env_key, client_cache, constructed, returned, th_local>>
    /\ UNCHANGED <<retrievalVars, pipelineVars, ingestVars, chunkerVars, traceVars, buildVars>>

\* if _openai_client is None / if _chroma_client is None
TestCache(t) ==
    /\ th_pc[t] = "test"
    /\ th_pc' = [th_pc EXCEPT ![t] =
                   IF client_cache[th_fn[t]] # 0 THEN "return"
                   ELSE IF th_fn[t] = "openai" THEN "getenv"
                   ELSE "construct"]
    /\ UNCHANGED <<env_key, client_cache, constructed, returned, th_fn, th_local, th_calls>>
    /\ UNCHANGED <<retrievalVars, pipelineVars, ingestVars, chunkerVars, traceVars, buildVars>>

\* api_key = os.getenv("OPENAI_API_KEY"); if not api_key: raise ValueError
GetEnv(t) ==
    /\ th_pc[t] = "getenv"
    /\ th_pc' = [th_pc EXCEPT ![t] = IF env_key THEN "construct" ELSE "raised"]
    /\ UNCHANGED <<env_key, client_cache, constructed, returned, th_fn, th_local, th_calls>>
    /\ UNCHANGED <<retrievalVars, pipelineVars, ingestVars, chunkerVars, traceVars, buildVars>>

\* OpenAI(api_key=api_key) / chromadb.PersistentClient(...): a new client object
Construct(t) ==
    /\ th_pc[t] = "construct"
    /\ constructed' = [constructed EXCEPT ![th_fn[t]] = @ + 1]
    /\ th_local' = [th_local EXCEPT ![t] = constructed[th_fn[t]] + 1]
    /\ th_pc' = [th_pc EXCEPT ![t] = "assign"]
    /\ UNCHANGED <<env_key, client_cache, returned, th_fn, th_calls>>
    /\ UNCHANGED <<retrievalVars, pipelineVars, ingestVars, chunkerVars, traceVars, buildVars>>

\* the store into the global
Assign(t) ==
    /\ th_pc[t] = "assign"
    /\ client_cache' = [client_cache EXCEPT ![th_fn[t]] = th_local[t]]
    /\ th_local' = [th_local EXCEPT ![t] = 0]
    /\ th_pc' = [th_pc EXCEPT ![t] = "return"]
    /\ UNCHANGED <<env_key, constructed, returned, th_fn, th_calls>>
    /\ UNCHANGED <<retrievalVars, pipelineVars, ingestVars, chunkerVars, traceVars, buildVars>>

\* return _openai_client / return _chroma_client: the global as it is now
ReturnClient(t) ==
    /\ th_pc[t] = "return"
    /\ returned' = [returned EXCEPT ![th_fn[t]] = @ \cup {client_cache[th_fn[t]]}]
    /\ th_pc' = [th_pc EXCEPT ![t] = "idle"]
    /\ UNCHANGED <<env_key, client_cache, constructed, th_fn, th_local, th_calls>>
    /\ UNCHANGED <<retrievalVars, pipelineVars, ingestVars, chunkerVars, traceVars, buildVars>>

\* the ValueError has left the getter
RaisedOut(t) ==
    /\ th_pc[t] = "raised"
    /\ th_pc' = [th_pc EXCEPT ![t] = "idle"]
    /\ UNCHANGED <<env_key, client_cache, constructed, returned, th_fn, th_local, th_calls>>
    /\ UNCHANGED <<retrievalVars, pipelineVars, ingestVars, chunkerVars, traceVars, buildVars>>

\* ------------------------------------------------------------ TraceLog
\* the agent_name and stage the callers of begin pass
BeginArgs == { <<"Planner", "plan">>, <<"Researcher", "research">> }

OutputPreviews == {"ok"}

ErrorTexts == {"timeout"}

\* TraceEntry(agent_name, stage, status="running", ...), the fields the log works with
TraceEntry(agent_name, stage) ==
    [ agent_name     |-> agent_name,
      stage          |-> stage,
      status         |-> "running",
      output_preview |-> "",
      error_message  |-> <<>> ]

\* a begin that puts the new entry in front
PrependEntry(entries, entry) == <<entry>> \o entries

\* self.entries.append(entry)
AppendEntry(entries, entry) == Append(entries, entry)

\* complete: the writes to the entry
CompleteEntry(entry, output_preview) ==
    [entry EXCEPT !.status = "completed", !.output_preview = output_preview]

\* fail: the writes to the entry
FailEntry(entry, error) ==
    [entry EXCEPT !.status = "error", !.error_message = <<error>>]

\* TraceEntry.to_dict, the fields the log works with
ToDict(entry) ==
    [ agent  |-> entry.agent_name,
      stage  |-> entry.stage,
      status |-> entry.status,
      output_preview |-> entry.output_preview,
      error  |-> entry.error_message ]

\* the icon format_for_display prints for a status
Icon(status) ==
    IF status = "completed" THEN "OK"
    ELSE IF status = "error" THEN "ERR"
    ELSE IF status = "running" THEN "..."
    ELSE "--"

\* the lines format_for_display prints for entry number i
EntryLines(entry, i) ==
    << <<"\n[", Icon(entry.status), "] Step ">> \o Str(i)
          \o <<": ", entry.agent_name, " (", entry.stage, ")">> >>
    \o (IF entry.output_preview # ""
         THEN << <<"     Output   : ", entry.output_preview>> >> ELSE <<>>)
    \o (IF entry.error_message # <<>> /\ entry.error_message[1] # ""
         THEN << <<"     Error    : ", entry.error_message[1]>> >> ELSE <<>>)

RECURSIVE DisplayLines(_, _)
\* the lines of entries i, i + 1, ...
DisplayLines(entries, i) ==
    IF i > Len(entries) THEN <<>>
    ELSE EntryLines(entries[i], i) \o DisplayLines(entries, i + 1)

\* TraceLog(): no entries, no pipeline times
TraceInit ==
    /\ tr_entries = <<>>
    /\ tr_started = FALSE
    /\ tr_ended = FALSE
    /\ tr_begun = <<>>
    /\ tr_view = <<>>

StartPipeline ==
    /\ ~tr_started
    /\ tr_started' = TRUE
    /\ tr_view' = <<>>
    /\ UNCHANGED <<tr_entries, tr_ended, tr_begun>>
    /\ UNCHANGED <<retrievalVars, pipelineVars, ingestVars, chunkerVars, clientVars, buildVars>>

EndPipeline ==
    /\ ~tr_ended
    /\ tr_ended' = TRUE
    /\ tr_view' = <<>>
    /\ UNCHANGED <<tr_entries, tr_started, tr_begun>>
    /\ UNCHANGED <<retrievalVars, pipelineVars, ingestVars, chunkerVars, clientVars, buildVars>>

\* begin(agent_name, stage); it returns the entry, here by its place in the list
Begin ==
    /\ Len(tr_entries) < MaxEntries
    /\ \E a \in BeginArgs :
         /\ tr_entries' = AppendEntry(tr_entries, TraceEntry(a[1], a[2]))
         /\ tr_begun' = Append(tr_begun, a)
    /\ tr_view' = <<[kind |-> "entry", value |-> Len(tr_entries) + 1]>>
    /\ UNCHANGED <<tr_started, tr_ended>>
    /\ UNCHANGED <<retrievalVars, pipelineVars, ingestVars, chunkerVars, clientVars, buildVars>>

\* complete(entry, output_preview), on any entry begin has handed out
Complete ==
    /\ \E i \in DOMAIN tr_entries, output_preview \in OutputPreviews :
         tr_entries' = [tr_entries EXCEPT ![i] = CompleteEntry(@, output_preview)]
    /\ tr_view' = <<>>
    /\ UNCHANGED <<tr_started, tr_ended, tr_begun>>
    /\ UNCHANGED <<retrievalVars, pipelineVars, ingestVars, chunkerVars, clientVars, buildVars>>

\* fail(entry, error), on any entry begin has handed out
Fail ==
    /\ \E i \in DOMAIN tr_entries, error \in ErrorTexts :
         tr_entries' = [tr_entries EXCEPT ![i] = FailEntry(@, error)]
    /\ tr_view' = <<>>
    /\ UNCHANGED <<tr_started, tr_ended, tr_begun>>
    /\ UNCHANGED <<retrievalVars, pipelineVars, ingestVars, chunkerVars, clientVars, buildVars>>

\* to_list()
ToList ==
    /\ tr_view' = <<[kind |-> "list",
                     value |-> [i \in DOMAIN tr_entries |-> ToDict(tr_entries[i])]]>>
    /\ UNCHANGED <<tr_entries, tr_started, tr_ended, tr_begun>>
    /\ UNCHANGED <<retrievalVars, pipelineVars, ingestVars, chunkerVars, clientVars, buildVars>>

\* format_for_display()
FormatForDisplay ==
    /\ tr_view' = <<[kind |-> "display",
                     value |-> << <<"  AGENT TRACE LOG">> >> \o DisplayLines(tr_entries, 1)]>>
    /\ UNCHANGED <<tr_entries, tr_started, tr_ended, tr_begun>>
    /\ UNCHANGED <<retrievalVars, pipelineVars, ingestVars, chunkerVars, clientVars, buildVars>>

\* ----------------------------------------------------------- build_index
\* index_chunks' default batch_size
BATCH_SIZE == 100

\* the files a DATA_DIR of an index build holds: unreadable, one page, two pages
BuildFiles ==
    { [readable |-> FALSE, raw_pages |-> <<>>],
      [readable |-> TRUE, raw_pages |-> <<Rep("a", 900)>>],
      [readable |-> TRUE, raw_pages |-> <<Rep("a", 900), Rep("a", 900)>>] }

BuildDirs == UNION { [names -> BuildFiles] : names \in SUBSET {DocA, DocB} }

RECURSIVE IngestAllDocuments(_, _)
\* ingest_all_documents over the files of dir, taken in the order the glob gave
IngestAllDocuments(dir, paths) ==
    IF paths = <<>> THEN <<>>
    ELSE ProcessDocument(Head(paths), dir[Head(paths)]).value
         \o IngestAllDocuments(dir, Tail(paths))

\* what index_chunks stores for a chunk: its id, its text and its metadata
IndexEntry(chunk) ==
    [ id       |-> chunk.chunk_id,
      document |-> chunk.text,
      metadata |-> [ document_name |-> chunk.document_name,
                     page_number   |-> chunk.page_number,
                     chunk_index   |-> chunk.chunk_index,
                     citation      |-> GetCitation(chunk.document_name, chunk.page_number,
                                                   chunk.chunk_index) ] ]

\* the chunks of batch number b (from 0): chunks[i:end_idx]
BatchOf(chunks, b) ==
    SubSeq(chunks, b * BATCH_SIZE + 1, Min((b + 1) * BATCH_SIZE, Len(chunks)))

\* no build is under way
BuildIdle ==
    /\ b_pc = "idle"
    /\ b_dir = <<>>
    /\ b_reset = FALSE
    /\ b_chunks = <<>>
    /\ b_stored = 0
    /\ b_ret = <<>>

\* build_index(reset) is called: chunks = ingest_all_documents()
CallBuildIndex ==
    /\ b_pc = "idle"
    /\ \E dir \in BuildDirs, reset \in BOOLEAN :
         /\ b_dir' = dir
         /\ b_reset' = reset
         /\ \E order \in Orderings(DOMAIN dir) :
              b_chunks' = IngestAllDocuments(dir, order)
    /\ b_pc' = "ingested"
    /\ UNCHANGED <<store_exists, store_entries, b_stored, b_ret>>
    /\ UNCHANGED <<retrievalVars, pipelineVars, ingestVars, chunkerVars, clientVars, traceVars>>

\* "if not chunks: return None"; else create_or_get_collection(client, reset=reset)
\* and the test of collection.count()
BuildSetup ==
    /\ b_pc = "ingested"
    /\ IF b_chunks = <<>>
       THEN /\ b_pc' = "returned"
            /\ b_ret' = <<"none">>
            /\ UNCHANGED <<store_exists, store_entries>>
       ELSE /\ store_exists' = TRUE
            /\ store_entries' = IF b_reset \/ ~store_exists THEN {} ELSE store_entries
            /\ IF store_entries' # {} /\ ~b_reset
               THEN b_pc' = "returned" /\ b_ret' = <<"collection">>
               ELSE b_pc' = "embedding" /\ UNCHANGED b_ret
    /\ UNCHANGED <<b_dir, b_reset, b_chunks, b_stored>>
    /\ UNCHANGED <<retrievalVars, pipelineVars, ingestVars, chunkerVars, clientVars, traceVars>>

\* index_chunks: batch_generate_embeddings(texts); a failing batch raises
BuildEmbed ==
    /\ b_pc = "embedding"
    /\ \E ok \in BOOLEAN : b_pc' = IF ok THEN "storing" ELSE "raised"
    /\ UNCHANGED <<store_exists, store_entries, b_dir, b_reset, b_chunks, b_stored, b_ret>>
    /\ UNCHANGED <<retrievalVars, pipelineVars, ingestVars, chunkerVars, clientVars, traceVars>>

\* index_chunks: one collection.add(...) of the storing loop; it may raise
BuildStore ==
    /\ b_pc = "storing"
    /\ b_stored * BATCH_SIZE < Len(b_chunks)
    /\ \E ok \in BOOLEAN :
         IF ok
         THEN /\ store_entries' =
                    store_entries
                    \cup { IndexEntry(c) : c \in Range(BatchOf(b_chunks, b_stored)) }
              /\ b_stored' = b_stored + 1
              /\ UNCHANGED b_pc
         ELSE /\ b_pc' = "raised"
              /\ UNCHANGED <<store_entries, b_stored>>
    /\ UNCHANGED <<store_exists, b_dir, b_reset, b_chunks, b_ret>>
    /\ UNCHANGED <<retrievalVars, pipelineVars, ingestVars, chunkerVars, clientVars, traceVars>>

\* the storing loop is over: build_index returns the collection
BuildFinish ==
    /\ b_pc = "storing"
    /\ ~(b_stored * BATCH_SIZE < Len(b_chunks))
    /\ b_pc' = "returned"
    /\ b_ret' = <<"collection">>
    /\ UNCHANGED <<store_exists, store_entries, b_dir, b_reset, b_chunks, b_stored>>
    /\ UNCHANGED <<retrievalVars, pipelineVars, ingestVars, chunkerVars, clientVars, traceVars>>

\* the caller has the result or the exception; the store stays as it is
BuildReturn ==
    /\ b_pc \in {"returned", "raised"}
    /\ b_pc' = "idle"
    /\ b_dir' = <<>>
    /\ b_reset' = FALSE
    /\ b_chunks' = <<>>
    /\ b_stored' = 0
    /\ b_ret' = <<>>
    /\ UNCHANGED <<store_exists, store_entries>>
    /\ UNCHANGED <<retrievalVars, pipelineVars, ingestVars, chunkerVars, clientVars, traceVars>>

\* the parts outside retrieval, pipeline and ingestion are at rest
AuxIdle ==
    /\ ChunkerIdle
    /\ ClientsIdle /\ env_key = TRUE
    /\ TraceInit
    /\ BuildIdle /\ store_exists = FALSE /\ store_entries = {}

vars == <<retrievalVars, pipelineVars, ingestVars, auxVars>>

\* the retrieval functions, called directly or as tools; no pipeline run is under way
Init ==
    /\ RetrievalInit
    /\ PipelineInit /\ user_request = "request 1"
    /\ IngestIdle
    /\ AuxIdle

Next ==
    \/ CallSearchDocuments
    \/ CallRetrieveWithContext
    \/ CallSearchRetailDocuments
    \/ CallMultiQueryRetrieval
    \/ CallMultiSearchRetailDocuments
    \/ MultiQueryStep
    \/ MultiQueryFinish
    \/ Return

Spec == Init /\ [][Next]_vars

\* one run of run_pipeline
InitPipeline ==
    /\ RetrievalInit /\ collectionExists /\ apiKey
    /\ PipelineInit
    /\ IngestIdle
    /\ AuxIdle

NextPipeline ==
    \/ PlanStage
    \/ ResearchToolCall
    \/ ResearchStage
    \/ DraftStage
    \/ VerifyStage
    \/ DeliverStage

SpecPipeline == InitPipeline /\ [][NextPipeline]_vars

\* the offline path: chunking and ingestion of DATA_DIR
InitIngest ==
    /\ RetrievalInit /\ collectionExists /\ apiKey
    /\ PipelineInit /\ user_request = "request 1"
    /\ IngestIdle
    /\ AuxIdle

NextIngest ==
    \/ CallChunkText
    \/ CallIngestAllDocuments
    \/ IngestStep
    \/ IngestFinish
    \/ IngestReturn

SpecIngest == InitIngest /\ [][NextIngest]_vars

\* chunk_text calls followed one loop iteration at a time; a running call goes on
InitChunker ==
    /\ RetrievalInit /\ collectionExists /\ apiKey
    /\ PipelineInit /\ user_request = "request 1"
    /\ IngestIdle
    /\ AuxIdle

NextChunker ==
    \/ EnterChunkText
    \/ ChunkStep
    \/ ChunkReturn
    \/ ChunkerReset

SpecChunker ==
    InitChunker /\ [][NextChunker]_vars /\ WF_vars(ChunkStep) /\ WF_vars(ChunkReturn)

\* the threads of one process calling the two getters, the key set or not at the start
InitClients ==
    /\ RetrievalInit /\ collectionExists /\ apiKey
    /\ PipelineInit /\ user_request = "request 1"
    /\ IngestIdle
    /\ ChunkerIdle
    /\ ClientsIdle /\ env_key \in BOOLEAN
    /\ TraceInit
    /\ BuildIdle /\ store_exists = FALSE /\ store_entries = {}

NextClients ==
    \/ ProvideKey
    \/ \E t \in Threads :
         \/ EnterGetter(t)
         \/ TestCache(t)
         \/ GetEnv(t)
         \/ Construct(t)
         \/ Assign(t)
         \/ ReturnClient(t)
         \/ RaisedOut(t)

SpecClients == InitClients /\ [][NextClients]_vars

\* one TraceLog and any sequence of its operations
InitTrace ==
    /\ RetrievalInit /\ collectionExists /\ apiKey
    /\ PipelineInit /\ user_request = "request 1"
    /\ IngestIdle
    /\ AuxIdle

NextTrace ==
    \/ StartPipeline
    \/ EndPipeline
    \/ Begin
    \/ Complete
    \/ Fail
    \/ ToList
    \/ FormatForDisplay

SpecTrace == InitTrace /\ [][NextTrace]_vars

\* build_index runs, one after the other, on a store that starts without the collection
InitBuild ==
    /\ RetrievalInit /\ collectionExists /\ apiKey
    /\ PipelineInit /\ user_request = "request 1"
    /\ IngestIdle
    /\ AuxIdle

NextBuild ==
    \/ CallBuildIndex
    \/ BuildSetup
    \/ BuildEmbed
    \/ BuildStore
    \/ BuildFinish
    \/ BuildReturn

SpecBuild == InitBuild /\ [][NextBuild]_vars


\* ------------------------------------------------------- claims: retrieval
SingleOps == {"search_documents", "retrieve_with_context", "search_retail_documents"}

MultiOps == {"multi_query_retrieval", "multi_search_retail_documents"}

\* the invoked function has returned normally
Finished == pc = "done" /\ ~raised

\* ... and a retrieval dict was produced on the way
HasDict ==
    /\ Finished
    /\ \/ op \in {"retrieve_with_context", "search_retail_documents", "multi_query_retrieval"}
       \/ op = "multi_search_retail_documents" /\ args.queries # <<>>

\* ... by the multi-query merge
HasMergedDict == HasDict /\ op \in MultiOps

\* the chunks the finished invocation surfaced
SurfacedChunks ==
    IF Finished /\ op = "search_documents" THEN ret.value
    ELSE IF HasDict THEN results.chunks
    ELSE <<>>

HitIdentity(h) ==
    <<h.metadata.document_name, h.metadata.page_number, h.metadata.chunk_index>>

\* the entries of the finished merge that carry the identity id
EntriesOf(id) == { i \in DOMAIN results.chunks : Identity(results.chunks[i]) = id }

\* C1: every chunk a retrieval function surfaces has similarity_score = 1 - distance
\* at or above the floor it was called with; of the hits the index returned to a
\* single search, exactly those at or above the floor are surfaced, so a hit at
\* exactly the floor is kept and a hit below it never appears.
C1_ThresholdGate ==
    /\ \A i \in DOMAIN SurfacedChunks :
         SurfacedChunks[i].similarity_score >= args.min_score
    /\ \A i \in DOMAIN all_chunks : all_chunks[i].similarity_score >= args.min_score
    /\ (Finished /\ op \in SingleOps /\ lastResp.kind = "ok") =>
         \A j \in DOMAIN lastResp.hits :
            LET h == lastResp.hits[j]
            IN  (100 - h.distance >= args.min_score)
                <=> \E i \in DOMAIN SurfacedChunks :
                       /\ Identity(SurfacedChunks[i]) = HitIdentity(h)
                       /\ SurfacedChunks[i].similarity_score = 100 - h.distance

\* a search whose answer held a hit exactly at the floor, which was kept, and a
\* hit below the floor, which was dropped
C1_Witness ==
    /\ Finished /\ op = "search_documents" /\ lastResp.kind = "ok"
    /\ Len(ret.value) = 1
    /\ ret.value[1].similarity_score = args.min_score
    /\ \E j \in DOMAIN lastResp.hits : 100 - lastResp.hits[j].distance < args.min_score

\* C3: the chunks of a finished multi-query merge have pairwise distinct chunk
\* identities and are ordered by similarity_score, non-increasing.
C3_MergedDistinctAndSorted ==
    HasMergedDict =>
        /\ \A i, j \in DOMAIN results.chunks :
             Identity(results.chunks[i]) = Identity(results.chunks[j]) => i = j
        /\ \A i, j \in DOMAIN results.chunks :
             i < j => results.chunks[i].similarity_score >= results.chunks[j].similarity_score

\* a merge of two queries or more that returned a chunk twice and ends with three
\* chunks of which the last-found one is ranked first
C3_Witness ==
    /\ HasMergedDict /\ searches >= 2 /\ later # {}
    /\ Len(results.chunks) = 3
    /\ results.chunks[1].similarity_score > results.chunks[3].similarity_score

\* C4: the finished merge holds, for every chunk identity some query returned, exactly
\* one entry, and that entry is the RetrievedChunk (score included) of the earliest
\* query that returned it; it holds nothing else, so hits are merged exactly when
\* their identity is the same.
C4_FirstOccurrenceWins ==
    HasMergedDict =>
        /\ \A r \in first_from :
             /\ Cardinality(EntriesOf(r.id)) = 1
             /\ \A i \in EntriesOf(r.id) : results.chunks[i] = r.chunk
        /\ \A i \in DOMAIN results.chunks :
             \E r \in first_from : r.id = Identity(results.chunks[i])
        /\ Len(results.chunks) = Cardinality({ r.id : r \in first_from })

\* a chunk returned again by a later query with another score, next to a second chunk
C4_Witness ==
    /\ HasMergedDict
    /\ Cardinality(first_from) >= 2
    /\ \E r \in first_from, l \in later :
         l[1] = r.id /\ l[2] # r.chunk.similarity_score

\* C5 as stated: when the queries returned one chunk with scores 0.9 and 0.7, the
\* merge holds one entry for it and that entry's score is 0.9.
C5_HighestScoreKept ==
    HasMergedDict =>
        \A r \in first_from :
            LET scores == {r.chunk.similarity_score} \cup { l[2] : l \in { x \in later : x[1] = r.id } }
            IN  {90, 70} \subseteq scores =>
                  /\ Cardinality(EntriesOf(r.id)) = 1
                  /\ \A i \in EntriesOf(r.id) : results.chunks[i].similarity_score = 90

\* C5 amended: when the queries returned one chunk with scores 0.9 and 0.7, the merge
\* holds one entry for it, with the score of the earlier of the two queries: 0.9 when
\* the 0.9 query came first, 0.7 when the 0.7 query came first.
C5_EarliestScoreKept ==
    HasMergedDict =>
        \A r \in first_from :
            LET scores == {r.chunk.similarity_score} \cup { l[2] : l \in { x \in later : x[1] = r.id } }
            IN  ({90, 70} \subseteq scores /\ r.chunk.similarity_score \in {90, 70}) =>
                  /\ Cardinality(EntriesOf(r.id)) = 1
                  /\ \A i \in EntriesOf(r.id) :
                       results.chunks[i].similarity_score = r.chunk.similarity_score

\* the first query returned the chunk at 0.9, a later one at 0.7
C5_Witness ==
    /\ HasMergedDict
    /\ \E r \in first_from :
         /\ r.chunk.similarity_score = 90
         /\ <<r.id, 70>> \in later
         /\ \A i \in EntriesOf(r.id) : results.chunks[i].similarity_score = 90


\* no hit of the finished invocation passed the floor
GatedSetEmpty ==
    IF op \in SingleOps
    THEN \/ Failed(lastResp)
         \/ \A j \in DOMAIN lastResp.hits : 100 - lastResp.hits[j].distance < args.min_score
    ELSE first_from = {}

\* C6: retrieve_with_context and multi_query_retrieval always return a dict, never
\* raise and never return nothing; the dict has found = false, no chunks and a
\* message beginning "Not found in sources" exactly when no hit passed the floor,
\* and found = true with at least one chunk otherwise.
C6_FoundTag ==
    /\ (pc = "done" /\ op \in {"retrieve_with_context", "multi_query_retrieval"}) =>
          /\ ~raised
          /\ "value" \in DOMAIN ret
          /\ ret.value = results
    /\ HasDict =>
          /\ results.found \in BOOLEAN
          /\ results.found <=> ~GatedSetEmpty
          /\ ~results.found =>
                /\ results.chunks = <<>>
                /\ results.message[1] = "Not found in sources"
          /\ results.found => results.chunks # <<>>

\* the index returned one hit, below the floor, and the answer is found = false
C6_Witness ==
    /\ HasDict /\ op = "retrieve_with_context" /\ lastResp.kind = "ok"
    /\ Len(lastResp.hits) = 1
    /\ 100 - lastResp.hits[1].distance < args.min_score
    /\ ~results.found

\* C7: no exception escapes a retrieval function; a search that met a missing
\* collection, a failing embedding call or a failing index query returned the empty
\* list, which the wrapper reports as found = false; in a multi-query call a failing
\* query adds nothing (nothing is merged while every query so far has failed), every
\* query is still run, the chunks of the others are all merged, and the call reports
\* found = false when all of them failed.
C7_FailuresAbsorbed ==
    /\ ~raised
    /\ (Finished /\ op = "search_documents" /\ Failed(lastResp)) => ret.value = <<>>
    /\ (HasDict /\ op \in SingleOps /\ Failed(lastResp)) => ~results.found
    /\ (failures = searches) => (all_chunks = <<>> /\ first_from = {})
    /\ HasMergedDict =>
          /\ searches = Len(args.queries)
          /\ failures <= searches
          /\ Len(results.chunks) = Cardinality(first_from)
          /\ (failures = searches) => ~results.found

\* a multi-query call in which one query failed and another still found a chunk
C7_Witness ==
    /\ HasMergedDict /\ op = "multi_query_retrieval"
    /\ failures >= 1
    /\ results.found

ToolOps == {"search_retail_documents", "multi_search_retail_documents"}

\* the text holds the evidence block followed by the citations block
IsEvidenceText(t) ==
    \E i \in DOMAIN t :
        /\ t[i] = "# Retrieved Information\n"
        /\ \E j \in (i + 1)..Len(t) : t[j] = "\n\n## Citations\n"

\* C8 as stated: a tool returns the evidence-plus-citations text when retrieval
\* found something, and otherwise the one not-found sentinel, the same text on
\* every not-found return of either tool.
C8_TwoKindsOneSentinel ==
    (pc = "done" /\ op \in ToolOps) =>
        /\ ~raised
        /\ IF HasDict /\ results.found
           THEN IsEvidenceText(ret.value)
           ELSE ret.value = SearchToolNotFound

\* C8 amended: search_retail_documents returns the evidence-plus-citations text or
\* its fixed not-found sentinel; multi_search_retail_documents returns the fixed
\* text "No valid queries provided." when its argument holds no query, and else the
\* evidence-plus-citations text or its own fixed not-found sentinel; the two
\* sentinels both begin "Not found in sources" and differ after it.
C8_ToolReturns ==
    /\ SearchToolNotFound[1] = "Not found in sources"
    /\ MultiToolNotFound[1] = "Not found in sources"
    /\ (pc = "done" /\ op = "search_retail_documents") =>
          /\ ~raised
          /\ IF results.found THEN IsEvidenceText(ret.value)
             ELSE ret.value = SearchToolNotFound
    /\ (pc = "done" /\ op = "multi_search_retail_documents") =>
          /\ ~raised
          /\ IF args.queries = <<>> THEN ret.value = <<"No valid queries provided.">>
             ELSE IF results.found
                  THEN IsEvidenceText(ret.value) /\ ret.value[1] = "Combined results from "
                  ELSE /\ ret.value = MultiToolNotFound
                       /\ ret.value # SearchToolNotFound

\* the multi-search tool ran its queries, found nothing and returned its sentinel
C8_Witness ==
    /\ pc = "done" /\ op = "multi_search_retail_documents"
    /\ args.queries # <<>>
    /\ ~results.found
    /\ ret.value = MultiToolNotFound


\* -------------------------------------------------------- claims: pipeline
\* C2: in the PipelineResult of a delivered run, final_deliverable is the draft, field
\* for field, when overall_verdict is PASS; otherwise its executive_summary,
\* client_email and action_items are each the report's corrected field when that is
\* not None and the draft's field when it is; the draft and the report in the result
\* are the ones the Draft and Verify stages produced.
C2_DeliverMergeLaw ==
    p_stage = "delivered" =>
        LET r == pipeline_result[1]
            d == r.draft
            v == r.verification
            f == r.final_deliverable
        IN  /\ v.overall_verdict = "PASS" => f = d
            /\ v.overall_verdict # "PASS" =>
                 /\ f.executive_summary =
                       IF v.corrected_executive_summary = <<>> THEN d.executive_summary
                       ELSE v.corrected_executive_summary[1]
                 /\ f.client_email =
                       IF v.corrected_client_email = <<>> THEN d.client_email
                       ELSE v.corrected_client_email[1]
                 /\ f.action_items =
                       IF v.corrected_action_items = <<>> THEN d.action_items
                       ELSE v.corrected_action_items[1]
            /\ <<d>> = draft /\ stage_log[4].consumed.draft = draft
            /\ <<v>> = verification /\ stage_log[5].consumed.verification = verification

\* verdict FAIL with a corrected summary and no corrected email: the final summary is
\* the corrected one and the final email is the draft's
C2_Witness ==
    /\ p_stage = "delivered"
    /\ verification[1].overall_verdict = "FAIL"
    /\ verification[1].corrected_executive_summary # <<>>
    /\ verification[1].corrected_client_email = <<>>
    /\ pipeline_result[1].final_deliverable.executive_summary
         = verification[1].corrected_executive_summary[1]
    /\ pipeline_result[1].final_deliverable.executive_summary # draft[1].executive_summary
    /\ pipeline_result[1].final_deliverable.client_email = draft[1].client_email

StageOrder == <<"plan", "research", "draft", "verify", "deliver">>

\* C9: the stages run are, in order, a prefix of Plan, Research, Draft, Verify,
\* Deliver, each at most once; a stage has run only when the record of the stage
\* before it exists, and what it consumed are the records produced earlier in this
\* run (Verify: the draft and the research notes); a delivered run has run all five.
C9_StageOrder ==
    /\ Len(stage_log) <= Len(StageOrder)
    /\ \A i \in DOMAIN stage_log : stage_log[i].stage = StageOrder[i]
    /\ Len(stage_log) >= 1 => stage_log[1].consumed = [user_request |-> user_request]
    /\ Len(stage_log) >= 2 =>
          /\ plan # <<>>
          /\ stage_log[2].consumed = [plan |-> plan, user_request |-> user_request]
    /\ Len(stage_log) >= 3 =>
          /\ research # <<>>
          /\ stage_log[3].consumed = [research |-> research, user_request |-> user_request]
    /\ Len(stage_log) >= 4 =>
          /\ draft # <<>>
          /\ stage_log[4].consumed = [draft |-> draft, research |-> research]
    /\ Len(stage_log) >= 5 =>
          /\ verification # <<>>
          /\ stage_log[5].consumed = [draft |-> draft, verification |-> verification]
    /\ p_stage = "delivered" <=> Len(stage_log) = 5
    /\ p_stage = "delivered" <=> pipeline_result # <<>>

\* a run that went through all five stages
C9_Witness ==
    /\ p_stage = "delivered"
    /\ Len(stage_log) = 5
    /\ stage_log[4].stage = "verify"
    /\ stage_log[4].consumed.research = research

\* the number of times a stage was run
TimesRun(name) == Cardinality({ i \in DOMAIN stage_log : stage_log[i].stage = name })

\* C10: once the reasoning call of a stage has failed, the run is in the failed state:
\* that stage is the last one run and was run once, its record and the records of
\* the later stages do not exist, there is no PipelineResult, and no stage can run
\* any more; a run fails for no other reason.
C10_StageFailureFatal ==
    /\ failed_call # "none" <=> p_stage = "failed"
    /\ p_stage = "failed" =>
          /\ pipeline_result = <<>>
          /\ stage_log # <<>>
          /\ stage_log[Len(stage_log)].stage = failed_call
          /\ TimesRun(failed_call) = 1
          /\ failed_call = "plan" => plan = <<>>
          /\ failed_call \in {"plan", "research"} => research = <<>>
          /\ failed_call \in {"plan", "research", "draft"} => draft = <<>>
          /\ verification = <<>>
          /\ ~ENABLED NextPipeline

\* the research stage's reasoning call failed after a plan was produced
C10_Witness ==
    /\ p_stage = "failed"
    /\ failed_call = "research"
    /\ plan # <<>>
    /\ research = <<>>
    /\ pipeline_result = <<>>

\* the report the Verify stage handed on, once it has
Handed == p_stage \in {"verified", "delivered"}

AllSupported(v) ==
    \A i \in DOMAIN v.verified_claims : v.verified_claims[i].verdict = "SUPPORTED"

AnyNotSupported(v) ==
    \E i \in DOMAIN v.verified_claims : v.verified_claims[i].verdict = "NOT SUPPORTED"

\* C11: in the report the Verify stage hands to Deliver, overall_verdict is one of
\* PASS, FAIL, PARTIAL; it is PASS exactly when every verified claim is SUPPORTED,
\* FAIL exactly when some claim is NOT SUPPORTED, and PARTIAL in every other case.
C11_VerdictRule ==
    Handed =>
        LET v == verification[1]
        IN  /\ v.overall_verdict \in {"PASS", "FAIL", "PARTIAL"}
            /\ v.overall_verdict = "PASS" <=> AllSupported(v)
            /\ v.overall_verdict = "FAIL" <=> AnyNotSupported(v)
            /\ v.overall_verdict = "PARTIAL" <=> (~AllSupported(v) /\ ~AnyNotSupported(v))

\* C12: in the report that reaches Deliver, the three corrected fields are all
\* present when overall_verdict is not PASS and all None when it is PASS.
C12_CorrectionsWhenNeeded ==
    Handed =>
        LET v == verification[1]
        IN  IF v.overall_verdict = "PASS"
            THEN /\ v.corrected_executive_summary = None
                 /\ v.corrected_client_email = None
                 /\ v.corrected_action_items = None
            ELSE /\ v.corrected_executive_summary # None
                 /\ v.corrected_client_email # None
                 /\ v.corrected_action_items # None

\* C13: in the ResearchNotes the Research stage produced, the citation of every
\* finding appeared in the result of some search tool call made during that stage.
C13_NoCitationFabrication ==
    research # None =>
        \A i \in DOMAIN research[1].findings :
            research[1].findings[i].citation \in tool_citations

\* ------------------------------------------------------- claims: ingestion
\* C14: every chunk chunk_text returns has stripped length >= MIN_CHUNK_SIZE and
\* carries no surrounding whitespace, a text shorter than MIN_CHUNK_SIZE gives no
\* chunk, and every DocumentChunk of an ingestion has such a text and comes from a
\* page that is not shorter than the floor.
C14_MinimumChunkFloor ==
    /\ i_pc = "chunked" =>
          /\ \A k \in DOMAIN i_chunks :
                /\ Len(Strip(i_chunks[k])) >= MIN_CHUNK_SIZE
                /\ Strip(i_chunks[k]) = i_chunks[k]
          /\ Len(i_args.text) < MIN_CHUNK_SIZE => i_chunks = <<>>
    /\ i_pc \in {"ingest_loop", "ingested"} =>
          \A k \in DOMAIN doc_chunks :
              LET c == doc_chunks[k]
              IN  /\ Len(Strip(c.text)) >= MIN_CHUNK_SIZE
                  /\ Len(data_dir[c.document_name].raw_pages[c.page_number])
                        >= MIN_CHUNK_SIZE

\* chunk_text kept a chunk of exactly the floor's length and dropped a window that
\* is at least as long before stripping and shorter after it
C14_Witness ==
    /\ i_pc = "chunked"
    /\ \E k \in DOMAIN i_chunks : Len(i_chunks[k]) = MIN_CHUNK_SIZE
    /\ LET windows == WindowsFrom(i_args.text, 0, i_args.chunk_size, i_args.chunk_overlap)
       IN  \E w \in DOMAIN windows :
               /\ Len(windows[w]) >= MIN_CHUNK_SIZE
               /\ Len(Strip(windows[w])) < MIN_CHUNK_SIZE

\* the (document, page, index) triple of a DocumentChunk
Triple(c) == <<c.document_name, c.page_number, c.chunk_index>>

\* C16: among the chunks of one ingestion of the corpus, two chunks with the same
\* chunk_id have the same document name, page number and in-page index, and no two
\* chunks share such a triple; each chunk_id is the hash of its own triple's string.
C16_ChunkIdentityInjective ==
    i_pc \in {"ingest_loop", "ingested"} =>
        /\ \A j, k \in DOMAIN doc_chunks :
              /\ doc_chunks[j].chunk_id = doc_chunks[k].chunk_id
                    => Triple(doc_chunks[j]) = Triple(doc_chunks[k])
              /\ Triple(doc_chunks[j]) = Triple(doc_chunks[k]) => j = k
        /\ \A k \in DOMAIN doc_chunks :
              doc_chunks[k].chunk_id
                = GenerateChunkId(doc_chunks[k].document_name, doc_chunks[k].page_number,
                                  doc_chunks[k].chunk_index)

\* an ingestion that produced chunks of both documents, of two pages of one
\* document and of two indices within one page
C16_Witness ==
    /\ i_pc = "ingested"
    /\ \E j, k \in DOMAIN doc_chunks :
          doc_chunks[j].document_name # doc_chunks[k].document_name
    /\ \E j, k \in DOMAIN doc_chunks :
          /\ doc_chunks[j].document_name = doc_chunks[k].document_name
          /\ doc_chunks[j].page_number # doc_chunks[k].page_number
          /\ doc_chunks[j].chunk_index = doc_chunks[k].chunk_index
    /\ \E j, k \in DOMAIN doc_chunks :
          /\ doc_chunks[j].document_name = doc_chunks[k].document_name
          /\ doc_chunks[j].page_number = doc_chunks[k].page_number
          /\ doc_chunks[j].chunk_index # doc_chunks[k].chunk_index

\* ------------------------------------------- claims: citations and grouping
\* the place of the first chunk that carries the citation c
FirstIndex(chunks, c) ==
    CHOOSE i \in DOMAIN chunks :
        chunks[i].citation = c /\ \A j \in 1..(i - 1) : chunks[j].citation # c

\* list holds every distinct citation of chunks once, in first-seen order
IsFirstSeenList(list, chunks) ==
    /\ Injective(list)
    /\ Range(list) = CitationSet(chunks)
    /\ \A a, b \in DOMAIN list :
          a < b => FirstIndex(chunks, list[a]) < FirstIndex(chunks, list[b])

\* the text a tool returned, after its "## Citations" heading
CitationsBlock(t) ==
    LET j == CHOOSE i \in DOMAIN t : t[i] = "\n\n## Citations\n"
    IN  SubSeq(t, j + 1, Len(t))

\* the numbered rendering "1. c1\n2. c2..." of a list of citations
Numbered(list) ==
    Join([i \in DOMAIN list |-> Str(i) \o <<". ">> \o list[i]], <<"\n">>)

\* C17: the citations field of a found result of retrieve_with_context and
\* multi_query_retrieval holds every distinct citation of the chunks once, in
\* first-seen order, and the numbered list the search tools append to their text
\* holds the same citations, numbered 1..n in that order.
C17_CitationsFirstSeen ==
    (HasDict /\ results.found) =>
        /\ IsFirstSeenList(results.citations, results.chunks)
        /\ op \in ToolOps =>
              CitationsBlock(ret.value) = Numbered(results.citations)

\* groups partitions chunks by document_name, each group in the order of chunks
IsGroupingOf(groups, chunks) ==
    /\ DOMAIN groups = { chunks[i].document_name : i \in DOMAIN chunks }
    /\ \A d \in DOMAIN groups :
          groups[d] = SelectSeq(chunks, LAMBDA c : c.document_name = d)

\* C18 as stated: a found result of either mode carries its chunks grouped by
\* source document.
C18_GroupedInEitherMode ==
    (HasDict /\ results.found) =>
        /\ "chunks_by_document" \in DOMAIN results
        /\ IsGroupingOf(results.chunks_by_document, results.chunks)

\* C18 amended: a found result of retrieve_with_context carries chunks_by_document,
\* whose groups partition the result's chunks, each group holding exactly the chunks
\* of one document_name in result order; a found result of multi_query_retrieval
\* carries no chunks_by_document at all.
C18_GroupedSingleQueryOnly ==
    (HasDict /\ results.found) =>
        IF op \in MultiOps
        THEN "chunks_by_document" \notin DOMAIN results
        ELSE /\ "chunks_by_document" \in DOMAIN results
             /\ IsGroupingOf(results.chunks_by_document, results.chunks)

\* retrieve_with_context found two chunks of the same document
C18_Witness ==
    /\ HasDict /\ op = "retrieve_with_context"
    /\ results.found
    /\ \E d \in DOMAIN results.chunks_by_document :
          Len(results.chunks_by_document[d]) = 2

\* ------------------------------------------------ claims: configuration errors
\* C19: a retrieval call that needs the API credential and finds none ends with a
\* failure, not with a result; an ingestion that meets an unreadable document ends
\* with a failure, not with that document skipped.
C19_ConfigErrorsFatal ==
    /\ (pc = "done" /\ searches >= 1 /\ collectionExists /\ ~apiKey) => raised
    /\ (i_pc \in {"ingest_loop", "ingested"} /\ load_failed # {}) => i_raised

\* ------------------------------------------------ claims: single-query order
\* the places of the index's answer whose similarity is not below the floor
PassingPlaces ==
    { j \in DOMAIN lastResp.hits : ~(One - lastResp.hits[j].distance < args.min_score) }

\* the i-th passing place, counted in the index's order
PassingPlace(i) ==
    CHOOSE j \in PassingPlaces : Cardinality({ k \in PassingPlaces : k <= j }) = i

\* C20: the list a single-query search surfaces holds exactly the hits of the
\* index's answer that pass the floor, each once, in the order the index gave them,
\* and at most top_k of them; when the index's answer is distance-ascending the
\* list is similarity non-increasing.
C20_SingleQueryOrder ==
    (Finished /\ op \in SingleOps /\ lastResp.kind = "ok") =>
        LET out == SurfacedChunks
        IN  /\ Len(out) = Cardinality(PassingPlaces)
            /\ Len(out) <= args.top_k
            /\ \A i \in DOMAIN out :
                  LET h == lastResp.hits[PassingPlace(i)]
                  IN  /\ Identity(out[i]) = HitIdentity(h)
                      /\ out[i].text = h.document
                      /\ out[i].similarity_score = One - h.distance
            /\ (\A a, b \in DOMAIN lastResp.hits :
                    a < b => lastResp.hits[a].distance <= lastResp.hits[b].distance)
                 => \A a, b \in DOMAIN out :
                        a < b => out[a].similarity_score >= out[b].similarity_score

\* search_documents got two passing hits with the farther one first and returned
\* them in that order
C20_Witness ==
    /\ Finished /\ op = "search_documents" /\ lastResp.kind = "ok"
    /\ Len(lastResp.hits) = 2
    /\ lastResp.hits[1].distance > lastResp.hits[2].distance
    /\ Len(ret.value) = 2
    /\ ret.value[1].similarity_score < ret.value[2].similarity_score

\* ------------------------------------------------------------- C21
\* the window starts the loop of chunk_text visits: 0, step, 2 * step, ... below len(text)
WindowStarts(text, chunk_size, chunk_overlap) ==
    { st \in 0..(Len(text) - 1) : st % (chunk_size - chunk_overlap) = 0 }

\* the last whitespace position strictly between start and end, -1 when there is none
LastWhitespaceBetween(text, start, end) ==
    IF \A p \in (start + 1)..(end - 1) : text[p + 1] \notin Whitespace THEN -1
    ELSE end - 1 - CHOOSE k \in 0..(end - start - 2) :
                       /\ text[end - k] \in Whitespace
                       /\ \A j \in 0..(k - 1) : text[end - j] \notin Whitespace

\* where the cut belongs for a window whose right edge is inside the text: at the edge
\* when the character there is whitespace, else at the nearest whitespace before it
\* that is after the window start, else at the edge
CutNeverMidWord(text, start, chunk_size) ==
    LET end == start + chunk_size
    IN  IF text[end + 1] \in Whitespace THEN end
        ELSE IF LastWhitespaceBetween(text, start, end) # -1
             THEN LastWhitespaceBetween(text, start, end)
             ELSE end

\* C21: for every window of chunk_text whose right edge falls before the end of the
\* text, the cut is at the window edge if the character there is whitespace,
\* otherwise at the nearest preceding whitespace strictly after the window start,
\* and the hard cut is kept only when the window holds no such whitespace.
C21_RightEdgeNeverMidWord ==
    i_pc = "chunked" =>
        \A st \in WindowStarts(i_args.text, i_args.chunk_size, i_args.chunk_overlap) :
            st + i_args.chunk_size < Len(i_args.text) =>
                WindowEnd(i_args.text, st, i_args.chunk_size)
                    = CutNeverMidWord(i_args.text, st, i_args.chunk_size)

\* ------------------------------------------------------------- C22
\* a chunk_text call is being followed, on a text that is not empty
Following == ct_pc # "idle" /\ ct_args.text # <<>>

ValidOverlap == ct_args.chunk_overlap < ct_args.chunk_size

EqualOverlap == ct_args.chunk_overlap = ct_args.chunk_size

ExcessOverlap == ct_args.chunk_overlap > ct_args.chunk_size

\* C22 as stated: with 0 <= overlap < chunk_size chunk_text terminates and returns a
\* finite list, the window start advancing by exactly chunk_size - overlap on every
\* iteration; with overlap >= chunk_size the loop does not terminate on a text that
\* is not empty.
C22_TerminatesIffOverlapBelowSize ==
    /\ [][ChunkStep /\ ct_pc' = "loop" /\ ValidOverlap
            => ct_start' = ct_start + ct_args.chunk_size - ct_args.chunk_overlap]_vars
    /\ ((ct_pc = "loop" /\ ValidOverlap) ~> (ct_pc = "returned"))
    /\ [](Following /\ ~ValidOverlap => ct_pc = "loop")

\* C22, amended: with 0 <= overlap < chunk_size chunk_text terminates and returns a
\* finite list, the window start advancing by exactly chunk_size - overlap > 0 on
\* every iteration whatever the retraction; with overlap = chunk_size the start
\* stays at 0 and the loop never ends on a text that is not empty; with
\* overlap > chunk_size the start moves backwards and the call ends with an
\* IndexError, never with a returned list, on a text that is not empty.
C22_Termination ==
    /\ [][ChunkStep /\ ct_pc' = "loop"
            => ct_start' = ct_start + ct_args.chunk_size - ct_args.chunk_overlap]_vars
    /\ [](ct_pc # "idle" /\ ValidOverlap
            => /\ ct_pc # "raised"
               /\ ct_start >= 0
               /\ Len(ct_chunks) < MaxChunks)
    /\ ((ct_pc = "loop" /\ ValidOverlap) ~> (ct_pc = "returned"))
    /\ [](Following /\ EqualOverlap => ct_pc = "loop" /\ ct_start = 0)
    /\ [](Following /\ ExcessOverlap => ct_pc # "returned" /\ ct_start <= 0)
    /\ ((Following /\ ExcessOverlap) ~> (ct_pc = "raised"))

\* a call with a valid overlap returned after three iterations, one of which moved
\* its right edge back to a space
C22_Witness ==
    /\ ct_pc = "returned"
    /\ ValidOverlap
    /\ ct_start = 3 * (ct_args.chunk_size - ct_args.chunk_overlap)
    /\ \E st \in WindowStarts(ct_args.text, ct_args.chunk_size, ct_args.chunk_overlap) :
          WindowEnd(ct_args.text, st, ct_args.chunk_size) < st + ct_args.chunk_size

\* ------------------------------------------------------------- C23
\* C23: for every text handed to chunk_text with overlap < chunk_size, each window's
\* right edge, moved back or not, is at or beyond the start of the next window, and
\* every character of the text lies inside at least one window.
C23_WindowsCoverText ==
    i_pc = "chunked" =>
        LET text   == i_args.text
            size   == i_args.chunk_size
            step   == i_args.chunk_size - i_args.chunk_overlap
            starts == WindowStarts(text, size, i_args.chunk_overlap)
        IN  /\ \A st \in starts :
                  st + step \in starts => WindowEnd(text, st, size) >= st + step
            /\ \A p \in 0..(Len(text) - 1) :
                  \E st \in starts : st <= p /\ p < WindowEnd(text, st, size)

\* ------------------------------------------------------------- C24
\* C24: in every interleaving of get_openai_client and get_chroma_client calls made
\* by the threads of one process, each client is constructed at most once, every
\* call returns that same handle, and a call that fails for the missing credential
\* leaves the cache empty.
C24_CreateOnceClients ==
    /\ [](\A k \in ClientKinds :
            /\ constructed[k] <= 1
            /\ Cardinality(returned[k]) <= 1)
    /\ [][\A t \in Threads :
            (th_pc[t] = "getenv" /\ th_pc'[t] = "raised")
                => client_cache["openai"] = 0 /\ client_cache'["openai"] = 0]_vars

\* ------------------------------------------------------------- C25
\* the agent_name and stage of each entry, in list order
EntryNames(entries) == [i \in DOMAIN entries |-> <<entries[i].agent_name, entries[i].stage>>]

TraceStatuses == {"pending", "running", "completed", "error"}

\* C25: after any sequence of TraceLog operations the entries list holds exactly one
\* entry per begin call, in the order of the begin calls; begin only appends;
\* complete, fail, to_list and format_for_display never add, remove or reorder
\* entries; and every entry's status is one of pending, running, completed, error.
C25_TraceAppendOnly ==
    /\ [](/\ EntryNames(tr_entries) = tr_begun
          /\ \A i \in DOMAIN tr_entries : tr_entries[i].status \in TraceStatuses)
    /\ [][IF tr_begun' # tr_begun
          THEN /\ Len(tr_entries') = Len(tr_entries) + 1
               /\ SubSeq(tr_entries', 1, Len(tr_entries)) = tr_entries
          ELSE EntryNames(tr_entries') = EntryNames(tr_entries)]_vars

\* a log of two different stages, one completed and one failed, that has been
\* rendered by format_for_display
C25_Witness ==
    /\ Len(tr_entries) >= 2
    /\ tr_entries[1].stage # tr_entries[2].stage
    /\ tr_entries[1].status = "completed"
    /\ tr_entries[2].status = "error"
    /\ tr_view # <<>>
    /\ tr_view[1].kind = "display"

\* ------------------------------------------------------------- C26
\* C26: an entry created by begin starts as running; once an entry is completed or
\* error no later TraceLog operation changes its status; in every reachable state
\* an entry has an error_message if and only if its status is error.
C26_TerminalStatusesAbsorbing ==
    /\ [][/\ tr_begun' # tr_begun => tr_entries'[Len(tr_entries')].status = "running"
          /\ \A i \in DOMAIN tr_entries :
                tr_entries[i].status \in {"completed", "error"}
                    => tr_entries'[i].status = tr_entries[i].status]_vars
    /\ [](\A i \in DOMAIN tr_entries :
            tr_entries[i].error_message # <<>> <=> tr_entries[i].status = "error")

\* ------------------------------------------------------------- C27
\* C27: whenever build_index returns a collection, for either value of reset and
\* after any history of earlier runs, the collection holds exactly one entry per
\* chunk of the current ingestion, stored under that chunk's identifier, and no
\* other entries.
C27_IndexComplete ==
    (b_pc = "returned" /\ b_ret = <<"collection">>) =>
        /\ { en.id : en \in store_entries } = { c.chunk_id : c \in Range(b_chunks) }
        /\ Cardinality(store_entries) = Len(b_chunks)
        /\ \A c \in Range(b_chunks) : IndexEntry(c) \in store_entries

====
